---- MODULE Spec2Model ----
(***************************************************************************)
(* Model of pdd/content_selector.py: ContentSelector.select and the        *)
(* resolvers it dispatches to.                                             *)
(*                                                                         *)
(* Representation.  A Python str is a sequence of symbols (one-element     *)
(* TLA+ strings); a few multi-letter symbols stand for keywords and file   *)
(* suffixes ("lines", "def", ".py", ...).  A text that may contain line    *)
(* breaks is the non-empty sequence of its '\n'-separated segments, so     *)
(* ""  is << <<>> >>  and  "a\n"  is  << <<"a">>, <<>> >>.                   *)
(***************************************************************************)
EXTENDS Integers, Sequences, FiniteSets, TLC

VARIABLES
    pc,            \* position inside select: idle, normalise, parse, preflight, resolve, build, done
    content,       \* argument content (a text)
    selectors,     \* argument selectors: [form |-> "str" | "list", items |-> ...]
    file_path,     \* argument file_path: [none |-> BOOLEAN, p |-> str]
    mode,          \* argument mode
    sel_list,      \* local selectors after normalisation (list of str)
    parsed,        \* local parsed: sequence of [kind, value]
    tree,          \* local tree: [present |-> BOOLEAN, nodes |-> sequence of nodes]
    idx,           \* position of the for-loop over parsed
    all_spans,     \* local all_spans
    path_results,  \* local path_results
    ran,           \* history: indices of parsed whose resolver was entered
    result         \* outcome of the call: [kind |-> "none" | "text" | "error", text, err]

vars == <<pc, content, selectors, file_path, mode, sel_list, parsed, tree, idx,
          all_spans, path_results, ran, result>>

(***************************************************************************)
(* Bounds of the explored inputs.                                          *)
(***************************************************************************)
MaxLines == 3
MaxValLen == 3
MaxPyLines == 3
MaxMdLines == 3
MaxPatLines == 2
MaxPatLen == 2
MaxJsonDepth == 2
MaxPathLen == 2
MaxSelectors == 2
MaxPieces == 3
MaxSpans == 3

(***************************************************************************)
(* str helpers                                                             *)
(***************************************************************************)
Front(s) == SubSeq(s, 1, Len(s) - 1)

Last(s) == s[Len(s)]

Max(a, b) == IF a >= b THEN a ELSE b

Min(a, b) == IF a <= b THEN a ELSE b

\* one level of indentation of a Python source line (four blanks)
IND == "    "

IsSpace(c) == c = " " \/ c = IND

RECURSIVE LStrip(_)
LStrip(s) == IF s # <<>> /\ IsSpace(s[1]) THEN LStrip(Tail(s)) ELSE s

RECURSIVE RStrip(_)
RStrip(s) == IF s # <<>> /\ IsSpace(Last(s)) THEN RStrip(Front(s)) ELSE s

Strip(s) == RStrip(LStrip(s))

\* s.index(c): position (1-based) of the first c in s, 0 when absent
IndexOf(s, c) ==
    IF \E i \in 1..Len(s) : s[i] = c
    THEN CHOOSE i \in 1..Len(s) : s[i] = c /\ \A j \in 1..(i - 1) : s[j] # c
    ELSE 0

\* s.split(sep) for a one-symbol separator
RECURSIVE Split(_, _)
Split(s, sep) ==
    LET i == IndexOf(s, sep)
    IN  IF i = 0 THEN <<s>>
        ELSE <<SubSeq(s, 1, i - 1)>> \o Split(SubSeq(s, i + 1, Len(s)), sep)

StartsWith(s, pre) == Len(s) >= Len(pre) /\ SubSeq(s, 1, Len(pre)) = pre

EndsWith(s, suf) == Len(s) >= Len(suf) /\ SubSeq(s, Len(s) - Len(suf) + 1, Len(s)) = suf

Digits == {"0", "1", "2", "3", "4", "5", "6", "7", "8", "9"}

DigitVal(c) ==
    CASE c = "0" -> 0 [] c = "1" -> 1 [] c = "2" -> 2 [] c = "3" -> 3 [] c = "4" -> 4
      [] c = "5" -> 5 [] c = "6" -> 6 [] c = "7" -> 7 [] c = "8" -> 8 [] c = "9" -> 9

RECURSIVE DigitsVal(_)
DigitsVal(ds) == IF ds = <<>> THEN 0 ELSE 10 * DigitsVal(Front(ds)) + DigitVal(Last(ds))

AllDigits(s) == s # <<>> /\ \A i \in 1..Len(s) : s[i] \in Digits

\* int(s): [ok |-> FALSE] stands for ValueError
ParseInt(s0) ==
    LET s == Strip(s0)
    IN  IF AllDigits(s) THEN [ok |-> TRUE, n |-> DigitsVal(s)]
        ELSE IF s # <<>> /\ s[1] = "-" /\ AllDigits(Tail(s))
             THEN [ok |-> TRUE, n |-> 0 - DigitsVal(Tail(s))]
             ELSE [ok |-> FALSE, n |-> 0]

\* content.splitlines()
SplitLines(text) == IF Last(text) = <<>> THEN Front(text) ELSE text

\* "\n".join(ls) for strs without line breaks
JoinLines(ls) == IF ls = <<>> THEN << <<>> >> ELSE ls

\* "\n".join(parts) for texts
RECURSIVE JoinTexts(_)
JoinTexts(parts) ==
    IF parts = <<>> THEN << <<>> >>
    ELSE IF Len(parts) = 1 THEN parts[1]
         ELSE parts[1] \o JoinTexts(Tail(parts))

(***************************************************************************)
(* Errors and results                                                      *)
(***************************************************************************)
\* an error: its kind, the text(s) its message names and the numbers it names
NoErr == [type |-> "", sel |-> <<>>, aux |-> <<>>, n |-> 0, total |-> 0]

Err(type, sel) == [type |-> type, sel |-> sel, aux |-> <<>>, n |-> 0, total |-> 0]

Err2(type, sel, aux) == [type |-> type, sel |-> sel, aux |-> aux, n |-> 0, total |-> 0]

ErrN(type, sel, n, total) ==
    [type |-> type, sel |-> sel, aux |-> <<>>, n |-> n, total |-> total]

NoResult == [kind |-> "none", text |-> <<>>, err |-> NoErr]

TextResult(t) == [kind |-> "text", text |-> t, err |-> NoErr]

ErrorResult(e) == [kind |-> "error", text |-> <<>>, err |-> e]

\* an exception that is not a SelectorError leaves select
EscapedResult(type) == [kind |-> "escaped", text |-> <<>>, err |-> Err(type, <<>>)]

Span(s, e) == [start |-> s, end |-> e]

(***************************************************************************)
(* Span algebra: _extract_spans                                            *)
(***************************************************************************)
\* the sort key (s.start, s.end)
SpanLE(a, b) == a.start < b.start \/ (a.start = b.start /\ a.end <= b.end)

RECURSIVE InsertSpan(_, _)
InsertSpan(sorted, sp) ==
    IF sorted = <<>> THEN <<sp>>
    ELSE IF SpanLE(sorted[1], sp) THEN <<sorted[1]>> \o InsertSpan(Tail(sorted), sp)
         ELSE <<sp>> \o sorted

\* sorted(spans, key=lambda s: (s.start, s.end))
RECURSIVE SortSpans(_)
SortSpans(spans) ==
    IF spans = <<>> THEN <<>> ELSE InsertSpan(SortSpans(Front(spans)), Last(spans))

\* a fold that never merges
MergeableNever(prev, sp) == FALSE

\* the merge condition of the fold: the next span starts inside or right after prev
Mergeable(prev, sp) == sp.start <= prev.end

\* an end taken from the later span alone
MergedEndOfLast(prev, sp) == sp.end

\* max(prev.end, sp.end)
MergedEnd(prev, sp) == Max(prev.end, sp.end)

\* the fold over spans[1:], merged starting as [spans[0]]
RECURSIVE MergeFold(_, _)
MergeFold(merged, rest) ==
    IF rest = <<>> THEN merged
    ELSE LET prev == Last(merged)
             sp == rest[1]
         IN  IF Mergeable(prev, sp)
             THEN MergeFold(Front(merged) \o <<Span(prev.start, MergedEnd(prev, sp))>>,
                            Tail(rest))
             ELSE MergeFold(merged \o <<sp>>, Tail(rest))

\* the fold over the spans in the order of the selectors, without the sort
MergeSpansUnsorted(spans) == MergeFold(<<spans[1]>>, Tail(spans))

\* spans = sorted(spans, key=...) followed by the fold
MergeSpans(spans) ==
    LET s == SortSpans(spans) IN MergeFold(<<s[1]>>, Tail(s))

\* lines[a:b] for a list
PySlice(l, a, b) ==
    LET n == Len(l)
        lo == IF a < 0 THEN Max(n + a, 0) ELSE Min(a, n)
        hi == IF b < 0 THEN Max(n + b, 0) ELSE Min(b, n)
    IN  SubSeq(l, lo + 1, hi)

RECURSIVE ExtendAll(_, _)
ExtendAll(lines, merged) ==
    IF merged = <<>> THEN <<>>
    ELSE PySlice(lines, merged[1].start, merged[1].end) \o ExtendAll(lines, Tail(merged))

ExtractSpans(lines, spans) ==
    IF spans = <<>> THEN << <<>> >>
    ELSE JoinLines(ExtendAll(lines, MergeSpans(spans)))

(***************************************************************************)
(* Selector parser: _SELECTOR_RE, _parse_selectors                         *)
(***************************************************************************)
Kinds == {"lines", "def", "class", "section", "pattern", "path"}

\* a match that accepts an empty value: ^(kind):(.*)$
SelectorMatchEmptyValue(raw) == Len(raw) >= 2 /\ raw[1] \in Kinds /\ raw[2] = ":"

\* _SELECTOR_RE.match(raw): ^(kind):(.+)$
SelectorMatch(raw) == Len(raw) >= 3 /\ raw[1] \in Kinds /\ raw[2] = ":"

ParsedSelector(raw) == [kind |-> raw[1], value |-> SubSeq(raw, 3, Len(raw))]

RECURSIVE ParseSelectors(_)
ParseSelectors(sels) ==
    IF sels = <<>> THEN [ok |-> TRUE, parsed |-> <<>>, err |-> NoErr]
    ELSE LET raw == Strip(sels[1])
         IN  IF raw = <<>> THEN ParseSelectors(Tail(sels))
             ELSE IF ~SelectorMatch(raw)
                  THEN [ok |-> FALSE, parsed |-> <<>>, err |-> Err("MalformedSelector", raw)]
                  ELSE LET rest == ParseSelectors(Tail(sels))
                       IN  IF rest.ok
                           THEN [rest EXCEPT !.parsed = <<ParsedSelector(raw)>> \o @]
                           ELSE rest

(***************************************************************************)
(* Resolver outcomes: status "ok", "SelectorError" (raised by the resolver *)
(* itself) or "Exception" (any other exception, here ValueError)           *)
(***************************************************************************)
Resolved(spans) == [status |-> "ok", spans |-> spans, text |-> <<>>, err |-> NoErr]

ResolvedText(t) == [status |-> "ok", spans |-> <<>>, text |-> t, err |-> NoErr]

Raised(e) == [status |-> "SelectorError", spans |-> <<>>, text |-> <<>>, err |-> e]

Crashed(what) ==
    [status |-> "Exception", spans |-> <<>>, text |-> <<>>, err |-> Err(what, <<>>)]

(***************************************************************************)
(* Line selector: _resolve_lines                                           *)
(***************************************************************************)
\* a 1-based line number as a 0-based start: int(left) - 1
StartIndexKeeps1Based(n) == n

StartIndex(n) == n - 1

\* a check that rejects only the inverted ranges and lets the empty ones through
EmptyRangeOnlyInverted(start_0, end_0) == start_0 > end_0

\* if start_0 >= end_0
EmptyRange(start_0, end_0) == start_0 >= end_0

\* one part containing "-": N-M, N- or -M
ResolveDashPart(total, part) ==
    LET i == IndexOf(part, "-")
        left == Strip(SubSeq(part, 1, i - 1))
        right == Strip(SubSeq(part, i + 1, Len(part)))
        l == ParseInt(left)
        r == ParseInt(right)
    IN  IF left = <<>> /\ right = <<>> THEN Raised(Err("InvalidLineRange", part))
        ELSE IF (left # <<>> /\ ~l.ok) \/ (right # <<>> /\ ~r.ok) THEN Crashed("ValueError")
        ELSE LET s0 == IF left # <<>> THEN StartIndex(l.n) ELSE 0
                 e0 == IF right # <<>> THEN r.n ELSE total
                 start_0 == IF s0 < 0 THEN 0 ELSE s0
                 end_0 == IF e0 > total THEN total ELSE e0
             IN  IF EmptyRange(start_0, end_0)
                 THEN Raised(ErrN("EmptyOrInvertedRange", part, start_0 + 1, end_0))
                 ELSE Resolved(<<Span(start_0, end_0)>>)

\* a range check that lets line 0 through
LineInRangeFromZero(n, total) == n >= 0 /\ n <= total

\* not (n < 1 or n > total)
LineInRange(n, total) == n >= 1 /\ n <= total

\* one part without "-": a single line number N
ResolveSinglePart(total, part) ==
    LET n == ParseInt(part)
    IN  IF ~n.ok THEN Crashed("ValueError")
        ELSE IF ~LineInRange(n.n, total)
             THEN Raised(ErrN("LineOutOfRange", part, n.n, total))
             ELSE Resolved(<<Span(StartIndex(n.n), n.n)>>)

RECURSIVE ResolveLineParts(_, _)
ResolveLineParts(total, parts) ==
    IF parts = <<>> THEN Resolved(<<>>)
    ELSE LET part == Strip(parts[1])
         IN  IF part = <<>> THEN ResolveLineParts(total, Tail(parts))
             ELSE LET one == IF IndexOf(part, "-") # 0
                             THEN ResolveDashPart(total, part)
                             ELSE ResolveSinglePart(total, part)
                  IN  IF one.status # "ok" THEN one
                      ELSE LET rest == ResolveLineParts(total, Tail(parts))
                           IN  IF rest.status # "ok" THEN rest
                               ELSE Resolved(one.spans \o rest.spans)

ResolveLines(content_lines, value) ==
    ResolveLineParts(Len(content_lines), Split(value, ","))

(***************************************************************************)
(* Markdown section selector: _MD_HEADING_RE, _resolve_section             *)
(***************************************************************************)
\* number of leading "#" of a line
RECURSIVE LeadingHashes(_)
LeadingHashes(line) ==
    IF line # <<>> /\ line[1] = "#" THEN 1 + LeadingHashes(Tail(line)) ELSE 0

\* _MD_HEADING_RE.match(line): ^(#{1,6})\s+(.+)$
HeadingMatch(line) ==
    LET h == LeadingHashes(line)
    IN  h >= 1 /\ h <= 6 /\ Len(line) >= h + 2 /\ IsSpace(line[h + 1])

\* len(m.group(1))
HeadingLevel(line) == LeadingHashes(line)

\* m.group(2).strip()
HeadingText(line) == Strip(SubSeq(line, LeadingHashes(line) + 1, Len(line)))

\* a heading of level other ends a section opened at level: len(m2.group(1)) <= level
EndsSectionOnlyIfHigher(other, level) == other < level

EndsSection(other, level) == other <= level

\* the inner while loop: first j >= from (0-based) holding a heading of level <= level
RECURSIVE SectionEnd(_, _, _)
SectionEnd(content_lines, from, level) ==
    IF from >= Len(content_lines) THEN from
    ELSE IF HeadingMatch(content_lines[from + 1])
            /\ EndsSection(HeadingLevel(content_lines[from + 1]), level)
         THEN from
         ELSE SectionEnd(content_lines, from + 1, level)

\* the outer while loop from position i (0-based)
RECURSIVE SectionScan(_, _, _)
SectionScan(content_lines, heading_text, i) ==
    IF i >= Len(content_lines) THEN <<>>
    ELSE LET line == content_lines[i + 1]
         IN  IF HeadingMatch(line) /\ HeadingText(line) = Strip(heading_text)
             THEN LET j == SectionEnd(content_lines, i + 1, HeadingLevel(line))
                  IN  <<Span(i, j)>> \o SectionScan(content_lines, heading_text, j)
             ELSE SectionScan(content_lines, heading_text, i + 1)

ResolveSection(content_lines, heading_text) ==
    LET spans == SectionScan(content_lines, heading_text, 0)
    IN  IF spans = <<>> THEN Raised(Err("SectionNotFound", heading_text))
        ELSE Resolved(spans)

(***************************************************************************)
(* Regex pattern selector: _resolve_pattern                                *)
(* Regular expressions of the model: a sequence of literal symbols,        *)
(* optionally anchored by a leading "^"; "(" is an unbalanced group, which *)
(* re.compile rejects with re.error.                                       *)
(***************************************************************************)
\* re.compile(pattern) succeeds
RegexCompiles(pattern) == \A i \in 1..Len(pattern) : pattern[i] # "("

\* the literal occurs in line at offset k (0-based)
OccursAt(line, lit, k) ==
    k + Len(lit) <= Len(line) /\ SubSeq(line, k + 1, k + Len(lit)) = lit

\* the expression matches the line from offset k on: "^" holds only at the start of
\* the line, every other symbol is a literal
RECURSIVE RegexMatchAt(_, _, _)
RegexMatchAt(pattern, line, k) ==
    IF pattern = <<>> THEN TRUE
    ELSE IF pattern[1] = "^" THEN k = 0 /\ RegexMatchAt(Tail(pattern), line, k)
    ELSE k < Len(line) /\ line[k + 1] = pattern[1] /\ RegexMatchAt(Tail(pattern), line, k + 1)

\* compiled.match(line): the expression matches at the start of the line only
RegexMatchAtStart(pattern, line) == RegexMatchAt(pattern, line, 0)

\* compiled.search(line)
RegexSearch(pattern, line) == \E k \in 0..Len(line) : RegexMatchAt(pattern, line, k)

\* value.strip() with one pair of surrounding slashes removed
PatternOf(value) ==
    LET pattern == Strip(value)
    IN  IF Len(pattern) >= 2 /\ pattern[1] = "/" /\ Last(pattern) = "/"
        THEN SubSeq(pattern, 2, Len(pattern) - 1)
        ELSE pattern

\* the enumerate loop: one single-line span per matching line
RECURSIVE MatchingSpans(_, _, _)
MatchingSpans(content_lines, pattern, i) ==
    IF i >= Len(content_lines) THEN <<>>
    ELSE (IF RegexSearch(pattern, content_lines[i + 1]) THEN <<Span(i, i + 1)>> ELSE <<>>)
         \o MatchingSpans(content_lines, pattern, i + 1)

ResolvePattern(content_lines, value) ==
    LET pattern == PatternOf(value)
    IN  IF pattern = <<>> THEN Raised(Err("EmptyRegexPattern", <<>>))
        ELSE IF ~RegexCompiles(pattern) THEN Raised(Err("InvalidRegexPattern", pattern))
        ELSE LET spans == MatchingSpans(content_lines, pattern, 0)
             IN  IF spans = <<>> THEN Raised(Err("NoLinesMatched", pattern))
                 ELSE Resolved(spans)

(***************************************************************************)
(* Python sources and ast.parse.                                           *)
(* A source line is a run of IND symbols (one indentation level each)      *)
(* followed by one statement:                                              *)
(*     "@" name                      a decorator                           *)
(*     "def" name "(" ... ")" ":"    a function header                     *)
(*     "async" "def" name ...        an async function header              *)
(*     "class" name ... ":"          a class header                        *)
(*     anything else                 a simple statement                    *)
(* A header may carry its body on the same line, after the colon.  The     *)
(* symbol "$" is not a Python token.                                       *)
(***************************************************************************)
RECURSIVE PyIndent(_)
PyIndent(line) == IF line # <<>> /\ line[1] = IND THEN 1 + PyIndent(Tail(line)) ELSE 0

PyStmt(line) == SubSeq(line, PyIndent(line) + 1, Len(line))

\* a blank line or a comment: no statement
PyBlank(line) == LStrip(line) = <<>> \/ LStrip(line)[1] = "#"

IsDecoratorStmt(st) == Len(st) >= 2 /\ st[1] = "@"

IsDefStmt(st) == Len(st) >= 2 /\ st[1] = "def"

IsAsyncDefStmt(st) == Len(st) >= 3 /\ st[1] = "async" /\ st[2] = "def"

IsClassStmt(st) == Len(st) >= 2 /\ st[1] = "class"

IsHeaderStmt(st) == IsDefStmt(st) \/ IsAsyncDefStmt(st) \/ IsClassStmt(st)

\* number of "(" minus number of ")" in st[1..k]
RECURSIVE ParenDepth(_, _)
ParenDepth(st, k) ==
    IF k = 0 THEN 0
    ELSE ParenDepth(st, k - 1)
         + (IF st[k] = "(" THEN 1 ELSE IF st[k] = ")" THEN 0 - 1 ELSE 0)

\* position of the colon that ends a header: the first ":" outside parentheses, 0 if none
HeaderColon(st) ==
    LET cands == {k \in 1..Len(st) : st[k] = ":" /\ ParenDepth(st, k) = 0}
    IN  IF cands = {} THEN 0 ELSE CHOOSE k \in cands : \A m \in cands : k <= m

\* the header is followed by an indented block (its body is not on the header line)
OpensBlock(st) == IsHeaderStmt(st) /\ HeaderColon(st) = Len(st)

NonBlank(lines) == {i \in 1..Len(lines) : ~PyBlank(lines[i])}

PrevNB(lines, i) ==
    LET below == {j \in NonBlank(lines) : j < i}
    IN  IF below = {} THEN 0 ELSE CHOOSE j \in below : \A k \in below : k <= j

NextNB(lines, i) ==
    LET above == {j \in NonBlank(lines) : j > i}
    IN  IF above = {} THEN 0 ELSE CHOOSE j \in above : \A k \in above : j <= k

\* ast.parse(content) does not raise SyntaxError
PyParses(lines) ==
    \A i \in NonBlank(lines) :
        LET st == PyStmt(lines[i])
            p == PrevNB(lines, i)
            nx == NextNB(lines, i)
        IN  /\ \A k \in 1..Len(st) : st[k] # "$" /\ st[k] # IND
            /\ IsHeaderStmt(st) =>
                   /\ HeaderColon(st) # 0
                   /\ LET body == SubSeq(st, HeaderColon(st) + 1, Len(st))
                      IN  ~IsHeaderStmt(body) /\ ~IsDecoratorStmt(body)
            /\ p = 0 => PyIndent(lines[i]) = 0
            /\ p # 0 => IF OpensBlock(PyStmt(lines[p]))
                        THEN PyIndent(lines[i]) > PyIndent(lines[p])
                        ELSE /\ PyIndent(lines[i]) <= PyIndent(lines[p])
                             /\ \E j \in NonBlank(lines) :
                                    /\ j < i
                                    /\ PyIndent(lines[j]) = PyIndent(lines[i])
                                    /\ \A k \in NonBlank(lines) :
                                           (j < k /\ k < i)
                                               => PyIndent(lines[k]) >= PyIndent(lines[i])
            /\ OpensBlock(st) => nx # 0
            /\ IsDecoratorStmt(st) =>
                   /\ nx # 0
                   /\ PyIndent(lines[nx]) = PyIndent(lines[i])
                   /\ LET ns == PyStmt(lines[nx]) IN IsDecoratorStmt(ns) \/ IsHeaderStmt(ns)

NodeType(st) ==
    IF IsClassStmt(st) THEN "ClassDef"
    ELSE IF IsAsyncDefStmt(st) THEN "AsyncFunctionDef" ELSE "FunctionDef"

\* node.name
NodeName(st) == IF IsAsyncDefStmt(st) THEN <<st[3]>> ELSE <<st[2]>>

\* node.end_lineno: the last line of the block under header line i
EndLineno(lines, i) ==
    LET inside == {j \in NonBlank(lines) :
                       /\ j >= i
                       /\ \A k \in NonBlank(lines) :
                              (i < k /\ k <= j) => PyIndent(lines[k]) > PyIndent(lines[i])}
    IN  CHOOSE j \in inside : \A k \in inside : k <= j

\* node.decorator_list[0].lineno, 0 for an empty decorator_list
FirstDecorator(lines, i) ==
    LET run == {d \in NonBlank(lines) :
                    /\ d < i
                    /\ \A k \in NonBlank(lines) :
                           (d <= k /\ k < i) => IsDecoratorStmt(PyStmt(lines[k]))}
    IN  IF run = {} THEN 0 ELSE CHOOSE d \in run : \A k \in run : d <= k

\* the header lines of the definitions that enclose line i
Enclosing(lines, i) ==
    {p \in NonBlank(lines) :
         /\ p < i
         /\ IsHeaderStmt(PyStmt(lines[p]))
         /\ PyIndent(lines[p]) < PyIndent(lines[i])
         /\ EndLineno(lines, p) >= i}

\* line of the header whose body holds line i directly, 0 at module level
ParentLine(lines, i) ==
    LET encl == Enclosing(lines, i)
    IN  IF encl = {} THEN 0 ELSE CHOOSE p \in encl : \A q \in encl : q <= p

AstNode(lines, i) ==
    LET st == PyStmt(lines[i])
    IN  [type |-> NodeType(st), name |-> NodeName(st), lineno |-> i,
         end_lineno |-> EndLineno(lines, i), deco |-> FirstDecorator(lines, i),
         parent |-> ParentLine(lines, i), depth |-> Cardinality(Enclosing(lines, i))]

HeaderLines(lines) == {i \in NonBlank(lines) : IsHeaderStmt(PyStmt(lines[i]))}

\* ast.walk is breadth-first: nodes by depth, then by position
WalkBefore(lines, i, j) ==
    LET di == Cardinality(Enclosing(lines, i))
        dj == Cardinality(Enclosing(lines, j))
    IN  di < dj \/ (di = dj /\ i < j)

RECURSIVE WalkOrder(_, _)
WalkOrder(lines, todo) ==
    IF todo = {} THEN <<>>
    ELSE LET first == CHOOSE i \in todo : \A j \in todo \ {i} : WalkBefore(lines, i, j)
         IN  <<AstNode(lines, first)>> \o WalkOrder(lines, todo \ {first})

\* an expression nested deeper than the parser's stack allows (for instance
\* thousands of unary minus signs before a number)
DEEP == "DEEP"

IsDeepLine(line) == \E k \in 1..Len(line) : line[k] = DEEP

\* what ast.parse(content) raises: the parser reports the first fault in file
\* order, a SyntaxError for malformed source and a MemoryError when it runs out
\* of stack on a DEEP expression
ParseRaises(lines) ==
    LET deep == {i \in NonBlank(lines) : IsDeepLine(lines[i])}
    IN  IF deep = {} THEN (IF PyParses(lines) THEN "none" ELSE "SyntaxError")
        ELSE LET d == CHOOSE i \in deep : \A j \in deep : i <= j
             IN  IF PyParses(SubSeq(lines, 1, d)) THEN "MemoryError" ELSE "SyntaxError"

\* the class and function nodes that ast.walk(ast.parse(content)) yields, in order
PyParse(lines) ==
    IF ParseRaises(lines) = "none"
    THEN [present |-> TRUE, nodes |-> WalkOrder(lines, HeaderLines(lines))]
    ELSE [present |-> FALSE, nodes |-> <<>>]

NoTree == [present |-> FALSE, nodes |-> <<>>]

(***************************************************************************)
(* AST helpers: _node_start_line, _node_end_line, _find_ast_node           *)
(***************************************************************************)
NodeStartLineAtDef(node) == node.lineno - 1

NodeStartLine(node) == IF node.deco # 0 THEN node.deco - 1 ELSE node.lineno - 1

NodeEndLine(node) == node.end_lineno

NodeSpan(node) == Span(NodeStartLine(node), NodeEndLine(node))

IsFunc(node) == node.type \in {"FunctionDef", "AsyncFunctionDef"}

\* the spans of the nodes at the positions in keep, in sequence order from position k
RECURSIVE SpansAt(_, _, _)
SpansAt(nodes, keep, k) ==
    IF k > Len(nodes) THEN <<>>
    ELSE (IF k \in keep THEN <<NodeSpan(nodes[k])>> ELSE <<>>) \o SpansAt(nodes, keep, k + 1)

\* the test of the def: loop
DefMatches(node, value) == IsFunc(node) /\ node.name = value

\* the test of the class: loop
ClassMatches(node, cls_name) == node.type = "ClassDef" /\ node.name = cls_name

MethodMatchesAnyDepth(child, cls, method_name) ==
    /\ child.lineno > cls.lineno
    /\ child.end_lineno <= cls.end_lineno
    /\ IsFunc(child)
    /\ child.name = method_name

\* the test of the inner loop over node.body of class node cls
MethodMatches(child, cls, method_name) ==
    child.parent = cls.lineno /\ IsFunc(child) /\ child.name = method_name

\* the loop over ast.walk(tree) for class:Name.method, from position k
RECURSIVE ClassMethodScan(_, _, _, _)
ClassMethodScan(nodes, k, cls_name, method_name) ==
    IF k > Len(nodes) THEN Resolved(<<>>)
    ELSE IF ClassMatches(nodes[k], cls_name)
         THEN LET found == SpansAt(nodes,
                                   {c \in 1..Len(nodes) :
                                        MethodMatches(nodes[c], nodes[k], method_name)}, 1)
              IN  IF found = <<>>
                  THEN Raised(Err2("MethodNotFound", method_name, cls_name))
                  ELSE LET rest == ClassMethodScan(nodes, k + 1, cls_name, method_name)
                       IN  IF rest.status # "ok" THEN rest
                           ELSE Resolved(found \o rest.spans)
         ELSE ClassMethodScan(nodes, k + 1, cls_name, method_name)

FindAstNode(nodes, kind, value) ==
    IF kind = "def"
    THEN LET spans == SpansAt(nodes, {k \in 1..Len(nodes) : DefMatches(nodes[k], value)}, 1)
         IN  IF spans = <<>> THEN Raised(Err("FunctionNotFound", value))
             ELSE Resolved(spans)
    ELSE LET dot == IndexOf(value, ".")
             cls_name == IF dot # 0 THEN SubSeq(value, 1, dot - 1) ELSE value
             method_name == IF dot # 0 THEN SubSeq(value, dot + 1, Len(value)) ELSE <<>>
         IN  IF dot = 0
             THEN LET spans == SpansAt(nodes,
                                       {k \in 1..Len(nodes) : ClassMatches(nodes[k], cls_name)}, 1)
                  IN  IF spans = <<>> THEN Raised(Err("ClassNotFound", cls_name))
                      ELSE Resolved(spans)
             ELSE LET r == ClassMethodScan(nodes, 1, cls_name, method_name)
                  IN  IF r.status = "ok" /\ r.spans = <<>>
                      THEN Raised(Err2("ClassNotFound", cls_name, method_name))
                      ELSE r

(***************************************************************************)
(* JSON documents: json.loads and json.dumps(indent=2).                    *)
(* A value is a record [t, n, s, keys, items]: t is the Python type name,  *)
(* n the number of an int, s the symbols of a str, items the elements of   *)
(* a list or the values of a dict, keys the keys of a dict in order.       *)
(***************************************************************************)
JNull == [t |-> "NoneType", n |-> 0, s |-> <<>>, keys |-> <<>>, items |-> <<>>]

JInt(n) == [t |-> "int", n |-> n, s |-> <<>>, keys |-> <<>>, items |-> <<>>]

JStr(s) == [t |-> "str", n |-> 0, s |-> s, keys |-> <<>>, items |-> <<>>]

JList(items) == [t |-> "list", n |-> 0, s |-> <<>>, keys |-> <<>>, items |-> items]

JDict(keys, items) == [t |-> "dict", n |-> 0, s |-> <<>>, keys |-> keys, items |-> items]

QUOTE == "\""

NEWLINE == "\n"

\* the symbols of a text, its segments joined by NEWLINE
RECURSIVE Flatten(_)
Flatten(text) ==
    IF Len(text) = 1 THEN text[1]
    ELSE text[1] \o <<NEWLINE>> \o Flatten(Tail(text))

IsJsonWs(c) == c = " " \/ c = NEWLINE

RECURSIVE SkipWs(_, _)
SkipWs(t, p) == IF p <= Len(t) /\ IsJsonWs(t[p]) THEN SkipWs(t, p + 1) ELSE p

\* end (exclusive) of the run of digits starting at p
RECURSIVE DigitRunEnd(_, _)
DigitRunEnd(t, p) == IF p <= Len(t) /\ t[p] \in Digits THEN DigitRunEnd(t, p + 1) ELSE p

\* position of the first QUOTE at or after p, 0 when there is none
RECURSIVE NextQuote(_, _)
NextQuote(t, p) ==
    IF p > Len(t) THEN 0 ELSE IF t[p] = QUOTE THEN p ELSE NextQuote(t, p + 1)

JFail == [ok |-> FALSE, val |-> JNull, pos |-> 0]

JOk(v, p) == [ok |-> TRUE, val |-> v, pos |-> p]

\* d[key] = v on an insertion-ordered dict
DictPut(keys, items, key, v) ==
    IF \E i \in 1..Len(keys) : keys[i] = key
    THEN LET i == CHOOSE i \in 1..Len(keys) : keys[i] = key
         IN  [keys |-> keys, items |-> [items EXCEPT ![i] = v]]
    ELSE [keys |-> keys \o <<key>>, items |-> items \o <<v>>]

RECURSIVE JValue(_, _)
RECURSIVE JElements(_, _, _)
RECURSIVE JMembers(_, _, _, _)

\* one JSON value starting at or after position p0
JValue(t, p0) ==
    LET p == SkipWs(t, p0)
    IN  IF p > Len(t) THEN JFail
        ELSE IF t[p] = "null" THEN JOk(JNull, p + 1)
        ELSE IF t[p] \in Digits
             THEN LET e == DigitRunEnd(t, p)
                  IN  IF e - p > 1 /\ t[p] = "0" THEN JOk(JInt(0), p + 1)
                      ELSE JOk(JInt(DigitsVal(SubSeq(t, p, e - 1))), e)
        ELSE IF t[p] = QUOTE
             THEN LET q == NextQuote(t, p + 1)
                  IN  IF q = 0 THEN JFail ELSE JOk(JStr(SubSeq(t, p + 1, q - 1)), q + 1)
        ELSE IF t[p] = "["
             THEN LET q == SkipWs(t, p + 1)
                  IN  IF q <= Len(t) /\ t[q] = "]" THEN JOk(JList(<<>>), q + 1)
                      ELSE JElements(t, q, <<>>)
        ELSE IF t[p] = "{"
             THEN LET q == SkipWs(t, p + 1)
                  IN  IF q <= Len(t) /\ t[q] = "}" THEN JOk(JDict(<<>>, <<>>), q + 1)
                      ELSE JMembers(t, q, <<>>, <<>>)
        ELSE JFail

\* the elements of an array after "[" or ","
JElements(t, p, items) ==
    LET v == JValue(t, p)
        q == SkipWs(t, v.pos)
    IN  IF ~v.ok \/ q > Len(t) THEN JFail
        ELSE IF t[q] = "," THEN JElements(t, q + 1, items \o <<v.val>>)
        ELSE IF t[q] = "]" THEN JOk(JList(items \o <<v.val>>), q + 1)
        ELSE JFail

\* the members of an object after "{" or ","
JMembers(t, p0, keys, items) ==
    LET p == SkipWs(t, p0)
        k == IF p <= Len(t) /\ t[p] = QUOTE THEN JValue(t, p) ELSE JFail
        c == SkipWs(t, k.pos)
    IN  IF ~k.ok \/ c > Len(t) \/ t[c] # ":" THEN JFail
        ELSE LET v == JValue(t, c + 1)
                 q == SkipWs(t, v.pos)
                 d == DictPut(keys, items, k.val.s, v.val)
             IN  IF ~v.ok \/ q > Len(t) THEN JFail
                 ELSE IF t[q] = "," THEN JMembers(t, q + 1, d.keys, d.items)
                 ELSE IF t[q] = "}" THEN JOk(JDict(d.keys, d.items), q + 1)
                 ELSE JFail

\* json.loads(content): ok = FALSE stands for json.JSONDecodeError
JsonLoads(text) ==
    LET t == Flatten(text)
        v == JValue(t, 1)
    IN  IF v.ok /\ SkipWs(t, v.pos) > Len(t) THEN [ok |-> TRUE, val |-> v.val]
        ELSE [ok |-> FALSE, val |-> JNull]

RECURSIVE Spaces(_)
Spaces(n) == IF n = 0 THEN <<>> ELSE <<" ">> \o Spaces(n - 1)

\* the decimal digits of a natural number
RECURSIVE DigitsOf(_)
DigitsOf(n) ==
    LET d == CHOOSE c \in Digits : DigitVal(c) = n % 10
    IN  IF n < 10 THEN <<d>> ELSE DigitsOf(n \div 10) \o <<d>>

\* lines with pre put before the first and post after the last
Wrap(lines, pre, post) ==
    [i \in 1..Len(lines) |->
        (IF i = 1 THEN pre ELSE <<>>) \o lines[i] \o (IF i = Len(lines) THEN post ELSE <<>>)]

RECURSIVE JsonDumpsAt(_, _)
RECURSIVE JsonDumpsItems(_, _, _)

\* the lines of json.dumps(v, indent=2) for a value nested lvl levels deep
JsonDumpsAt(v, lvl) ==
    IF v.t = "NoneType" THEN << <<"null">> >>
    ELSE IF v.t = "int" THEN <<DigitsOf(v.n)>>
    ELSE IF v.t = "str" THEN << <<QUOTE>> \o v.s \o <<QUOTE>> >>
    ELSE IF v.items = <<>> THEN (IF v.t = "list" THEN << <<"[", "]">> >> ELSE << <<"{", "}">> >>)
    ELSE << <<IF v.t = "list" THEN "[" ELSE "{">> >>
         \o JsonDumpsItems(v, 1, lvl + 1)
         \o << Spaces(2 * lvl) \o <<IF v.t = "list" THEN "]" ELSE "}">> >>

\* the lines of the items of a non-empty list or dict from item i on
JsonDumpsItems(v, i, lvl) ==
    IF i > Len(v.items) THEN <<>>
    ELSE LET pre == Spaces(2 * lvl)
                    \o (IF v.t = "dict" THEN <<QUOTE>> \o v.keys[i] \o <<QUOTE, ":", " ">>
                        ELSE <<>>)
             post == IF i < Len(v.items) THEN <<",">> ELSE <<>>
         IN  Wrap(JsonDumpsAt(v.items[i], lvl), pre, post) \o JsonDumpsItems(v, i + 1, lvl)

\* json.dumps(result, indent=2, ensure_ascii=False)
JsonDumps(v) == JsonDumpsAt(v, 0)

(***************************************************************************)
(* JSON/YAML path selector: _parse_path_segments, _traverse_path,          *)
(* _resolve_path                                                           *)
(***************************************************************************)
IntSeg(n) == [int |-> TRUE, n |-> n, key |-> <<>>]

KeySeg(k) == [int |-> FALSE, n |-> 0, key |-> k]

Segments(segs) == [status |-> "ok", segs |-> segs, err |-> NoErr]

\* position of the first c at or after pos (1-based), 0 when there is none
RECURSIVE IndexFrom(_, _, _)
IndexFrom(s, c, pos) ==
    IF pos > Len(s) THEN 0 ELSE IF s[pos] = c THEN pos ELSE IndexFrom(s, c, pos + 1)

\* end of a key segment: first position at or after pos holding "." or "[", else Len + 1
RECURSIVE KeyEnd(_, _)
KeyEnd(path, pos) ==
    IF pos > Len(path) \/ path[pos] = "." \/ path[pos] = "[" THEN pos
    ELSE KeyEnd(path, pos + 1)

\* the while loop from position pos (1-based)
RECURSIVE PathScan(_, _)
PathScan(path, pos) ==
    IF pos > Len(path) THEN Segments(<<>>)
    ELSE IF path[pos] = "." THEN PathScan(path, pos + 1)
    ELSE IF path[pos] = "["
         THEN LET end == IndexFrom(path, "]", pos)
                  idx_str == SubSeq(path, pos + 1, end - 1)
                  n == ParseInt(idx_str)
              IN  IF end = 0
                  THEN [status |-> "Exception", segs |-> <<>>, err |-> Err("ValueError", <<>>)]
                  ELSE IF ~n.ok
                       THEN [status |-> "SelectorError", segs |-> <<>>,
                             err |-> Err2("InvalidArrayIndex", path, idx_str)]
                       ELSE LET rest == PathScan(path, end + 1)
                            IN  IF rest.status # "ok" THEN rest
                                ELSE Segments(<<IntSeg(n.n)>> \o rest.segs)
         ELSE LET end == KeyEnd(path, pos)
                  rest == PathScan(path, end)
              IN  IF rest.status # "ok" THEN rest
                  ELSE Segments(<<KeySeg(SubSeq(path, pos, end - 1))>> \o rest.segs)

ParsePathSegments(path) ==
    LET r == PathScan(path, 1)
    IN  IF r.status = "ok" /\ r.segs = <<>>
        THEN [status |-> "SelectorError", segs |-> <<>>, err |-> Err("EmptyPathExpression", path)]
        ELSE r

\* '.'.join(traversed)
RECURSIVE JoinDots(_)
JoinDots(traversed) ==
    IF traversed = <<>> THEN <<>>
    ELSE IF Len(traversed) = 1 THEN traversed[1]
         ELSE traversed[1] \o <<".">> \o JoinDots(Tail(traversed))

\* digits of an int, with its sign
IntStr(n) == IF n < 0 THEN <<"-">> \o DigitsOf(0 - n) ELSE DigitsOf(n)

\* seg in current, for a dict
HasKey(current, key) == \E i \in 1..Len(current.keys) : current.keys[i] = key

\* the first value of a dict, whatever the key
DictGetFirst(current, key) == current.items[1]

\* current[seg], for a dict
DictGet(current, key) ==
    current.items[CHOOSE i \in 1..Len(current.keys) : current.keys[i] = key]

Reached(v) == [ok |-> TRUE, val |-> v, err |-> NoErr]

TraverseFailed(e) == [ok |-> FALSE, val |-> JNull, err |-> e]

\* the for loop over segments with the current value and the traversed strs
RECURSIVE TraverseFrom(_, _, _, _)
TraverseFrom(current, segments, traversed, full_path) ==
    IF segments = <<>> THEN Reached(current)
    ELSE LET seg == segments[1]
         IN  IF seg.int
             THEN IF current.t # "list"
                  THEN TraverseFailed([Err2("ExpectedArray", JoinDots(traversed), <<current.t>>)
                                          EXCEPT !.n = seg.n])
                  ELSE IF seg.n < 0 \/ seg.n >= Len(current.items)
                       THEN TraverseFailed(ErrN("ArrayIndexOutOfRange", JoinDots(traversed),
                                                seg.n, Len(current.items)))
                       ELSE TraverseFrom(current.items[seg.n + 1], Tail(segments),
                                         traversed \o <<<<"[">> \o IntStr(seg.n) \o <<"]">>>>,
                                         full_path)
             ELSE IF current.t # "dict"
                  THEN TraverseFailed(Err2("ExpectedObject", JoinDots(traversed), <<current.t>>))
                  ELSE IF ~HasKey(current, seg.key)
                       THEN TraverseFailed(Err2("KeyNotFound", seg.key,
                                                IF traversed = <<>> THEN <<"root">>
                                                ELSE JoinDots(traversed)))
                       ELSE TraverseFrom(DictGet(current, seg.key), Tail(segments),
                                         traversed \o <<seg.key>>, full_path)

TraversePath(data, segments, full_path) == TraverseFrom(data, segments, <<>>, full_path)

\* file_path.rstrip().lower()
LowerSym(c) ==
    CASE c = ".PY" -> ".py" [] c = ".MD" -> ".md" [] c = ".JSON" -> ".json"
      [] c = ".YAML" -> ".yaml" [] OTHER -> c

Lower(p) == [i \in 1..Len(p) |-> LowerSym(p[i])]

HasSuffix(fp, sufs) ==
    LET lower == Lower(RStrip(fp.p))
    IN  lower # <<>> /\ Last(lower) \in sufs

IsPython(fp) == IF fp.none THEN TRUE ELSE HasSuffix(fp, {".py"})

\* every explicit path taken for a Markdown file
IsMarkdownAnyPath(fp) == ~fp.none

IsMarkdown(fp) ==
    IF fp.none THEN FALSE ELSE HasSuffix(fp, {".md", ".markdown"})

IsJson(fp) == IF fp.none THEN FALSE ELSE HasSuffix(fp, {".json"})

IsYaml(fp) == IF fp.none THEN FALSE ELSE HasSuffix(fp, {".yaml", ".yml"})

PathOf(fp) == IF fp.none THEN <<"None">> ELSE fp.p

\* The model is of an installation without PyYAML: the import at module load
\* failed and _HAS_YAML is False, so a YAML file reaches the 'PyYAML is required' raise.
ResolvePath(text, value, fp) ==
    IF IsJson(fp)
    THEN LET data == JsonLoads(text)
         IN  IF ~data.ok THEN Raised(Err("FailedToParseJSON", <<>>))
             ELSE LET segs == ParsePathSegments(value)
                  IN  IF segs.status = "Exception" THEN Crashed(segs.err.type)
                      ELSE IF segs.status # "ok" THEN Raised(segs.err)
                      ELSE LET r == TraversePath(data.val, segs.segs, value)
                           IN  IF ~r.ok THEN Raised(r.err)
                               ELSE ResolvedText(JsonDumps(r.val))
    ELSE IF IsYaml(fp)
         THEN Raised(Err("PyYAMLRequired", <<>>))
         ELSE Raised(Err("PathRequiresJsonOrYaml", PathOf(fp)))

(***************************************************************************)
(* Interface mode: _interface_for_node, _interface_for_func,               *)
(* _extract_docstring_lines, _body_indent, _full_interface,                *)
(* _interface_from_spans                                                   *)
(***************************************************************************)
IsImportStmt(st) == st[1] = "import" \/ st[1] = "from"

IsAssignStmt(st) == Len(st) >= 3 /\ st[2] = "="

IsAnnAssignStmt(st) == Len(st) >= 3 /\ st[2] = ":"

\* an expression statement that is a string constant
IsDocStmt(st) == Len(st) >= 2 /\ st[1] = QUOTE /\ Last(st) = QUOTE

Stmt(i, st) == [lineno |-> i, st |-> st]

RECURSIVE StmtsAt(_, _, _)
StmtsAt(lines, keep, i) ==
    IF i > Len(lines) THEN <<>>
    ELSE (IF i \in keep THEN <<Stmt(i, PyStmt(lines[i]))>> ELSE <<>>)
         \o StmtsAt(lines, keep, i + 1)

\* node.body: the statements directly inside the node at header line h (0: the module)
BodyOf(lines, h) ==
    IF h # 0 /\ ~OpensBlock(PyStmt(lines[h]))
    THEN LET st == PyStmt(lines[h])
         IN  <<Stmt(h, SubSeq(st, HeaderColon(st) + 1, Len(st)))>>
    ELSE StmtsAt(lines, {i \in NonBlank(lines) :
                             /\ ParentLine(lines, i) = h
                             /\ i # h
                             /\ ~IsDecoratorStmt(PyStmt(lines[i]))}, 1)

\* names for which name.startswith("_") holds
UnderscoreNames == {<<"_p">>, <<"_q">>, <<"__init__">>, <<"_C">>}

IsPrivateName(name) == name \in UnderscoreNames /\ name # <<"__init__">>

\* the source lines of the decorators of the node at header line h
DecoratorLines(lines, h) ==
    LET d == FirstDecorator(lines, h)
    IN  IF d = 0 THEN <<>>
        ELSE LET ds == StmtsAt(lines, {i \in NonBlank(lines) : d <= i /\ i < h}, 1)
             IN  [k \in 1..Len(ds) |-> lines[ds[k].lineno]]

ExtractDocstringLines(lines, h) ==
    LET body == BodyOf(lines, h)
    IN  IF body # <<>> /\ IsDocStmt(body[1].st) THEN <<lines[body[1].lineno]>> ELSE <<>>

BodyIndent(lines, h) ==
    LET first_body_line == lines[BodyOf(lines, h)[1].lineno]
    IN  SubSeq(first_body_line, 1, Len(first_body_line) - Len(LStrip(first_body_line)))

Contains(line, c) == \E k \in 1..Len(line) : line[k] = c

\* paren_depth after scanning lines from..i (1-based, inclusive)
RECURSIVE DepthAfter(_, _, _)
DepthAfter(lines, from, i) ==
    IF i < from THEN 0
    ELSE DepthAfter(lines, from, i - 1) + ParenDepth(lines[i], Len(lines[i]))

\* sig_end (1-based line): the first line from the def line to end_lineno at which the
\* parentheses are closed and that holds a colon; the def line itself when there is none
SigEnd(lines, node) ==
    LET cands == {i \in node.lineno..node.end_lineno :
                      DepthAfter(lines, node.lineno, i) <= 0 /\ Contains(lines[i], ":")}
    IN  IF cands = {} THEN node.lineno ELSE CHOOSE i \in cands : \A j \in cands : i <= j

InterfaceForFunc(lines, node) ==
    DecoratorLines(lines, node.lineno)
    \o SubSeq(lines, node.lineno, SigEnd(lines, node))
    \o ExtractDocstringLines(lines, node.lineno)
    \o <<BodyIndent(lines, node.lineno) \o <<"...">>>>

\* class_header_end (1-based line): the first line of the class holding a colon
ClassHeaderEnd(lines, node) ==
    LET cands == {i \in node.lineno..node.end_lineno : Contains(lines[i], ":")}
    IN  IF cands = {} THEN node.lineno ELSE CHOOSE i \in cands : \A j \in cands : i <= j

\* the loop over node.body of a class, from body statement k
RECURSIVE ClassMembers(_, _, _)
ClassMembers(lines, body, k) ==
    IF k > Len(body) THEN <<>>
    ELSE LET st == body[k].st
             h == body[k].lineno
         IN  (IF IsDefStmt(st) \/ IsAsyncDefStmt(st)
              THEN IF IsPrivateName(NodeName(st)) THEN <<>>
                   ELSE InterfaceForFunc(lines, AstNode(lines, h))
              ELSE IF IsAnnAssignStmt(st) THEN <<lines[h]>> ELSE <<>>)
             \o ClassMembers(lines, body, k + 1)

InterfaceForNode(lines, node) ==
    IF node.type = "ClassDef"
    THEN DecoratorLines(lines, node.lineno)
         \o SubSeq(lines, node.lineno, ClassHeaderEnd(lines, node))
         \o ExtractDocstringLines(lines, node.lineno)
         \o ClassMembers(lines, BodyOf(lines, node.lineno), 1)
    ELSE InterfaceForFunc(lines, node)

\* result_lines after appending iface, with the blank separator line
AppendIface(result_lines, iface) ==
    (IF result_lines # <<>> /\ Strip(Last(result_lines)) # <<>>
     THEN result_lines \o << <<>> >> ELSE result_lines) \o iface

\* the loop of _full_interface over tree.body, from statement k
RECURSIVE FullInterfaceFrom(_, _, _, _)
FullInterfaceFrom(lines, body, k, result_lines) ==
    IF k > Len(body) THEN result_lines
    ELSE LET st == body[k].st
             h == body[k].lineno
             next == IF IsHeaderStmt(st)
                     THEN IF IsPrivateName(NodeName(st)) THEN result_lines
                          ELSE AppendIface(result_lines, InterfaceForNode(lines, AstNode(lines, h)))
                     ELSE IF IsImportStmt(st) \/ IsAssignStmt(st) \/ IsAnnAssignStmt(st)
                             \/ IsDocStmt(st)
                          THEN result_lines \o <<lines[h]>>
                          ELSE result_lines
         IN  FullInterfaceFrom(lines, body, k + 1, next)

\* _full_interface(content, source_lines); the caller turns SyntaxError into 'Python parse error'
FullInterface(source_lines) ==
    IF ParseRaises(source_lines) = "SyntaxError" THEN ErrorResult(Err("PythonParseError", <<>>))
    ELSE IF ParseRaises(source_lines) # "none" THEN EscapedResult(ParseRaises(source_lines))
    ELSE TextResult(JoinLines(FullInterfaceFrom(source_lines, BodyOf(source_lines, 0), 1, <<>>)))

\* an overlap test on closed intervals, which also holds for spans that only touch
OverlapsOrTouches(node_span, merged) ==
    \E k \in 1..Len(merged) :
        node_span.start <= merged[k].end /\ node_span.end >= merged[k].start

\* _overlaps(node_span)
Overlaps(node_span, merged) ==
    \E k \in 1..Len(merged) :
        node_span.start < merged[k].end /\ node_span.end > merged[k].start

\* the loop of _interface_from_spans over ast.walk(tree), from node k
RECURSIVE IfaceFromSpansLoop(_, _, _, _, _)
IfaceFromSpansLoop(lines, nodes, merged, k, result_lines) ==
    IF k > Len(nodes) THEN result_lines
    ELSE IfaceFromSpansLoop(lines, nodes, merged, k + 1,
             IF Overlaps(NodeSpan(nodes[k]), merged)
             THEN AppendIface(result_lines, InterfaceForNode(lines, nodes[k]))
             ELSE result_lines)

InterfaceFromSpans(source_lines, nodes, spans) ==
    LET merged == MergeSpans(spans)
        result_lines == IfaceFromSpansLoop(source_lines, nodes, merged, 1, <<>>)
    IN  IF result_lines # <<>> THEN JoinLines(result_lines)
        ELSE ExtractSpans(source_lines, merged)

(***************************************************************************)
(* ContentSelector.select, one action per stage of the method              *)
(***************************************************************************)
\* source_lines = _splitlines(content)
source_lines == SplitLines(content)

\* [s.strip() for s in selectors.split(",") if s.strip()]
RECURSIVE StripNonBlank(_)
StripNonBlank(pieces) ==
    IF pieces = <<>> THEN <<>>
    ELSE (IF Strip(pieces[1]) # <<>> THEN <<Strip(pieces[1])>> ELSE <<>>)
         \o StripNonBlank(Tail(pieces))

\* the comma-separated parts of every element of a list
RECURSIVE SplitEach(_)
SplitEach(items) ==
    IF items = <<>> THEN <<>> ELSE Split(items[1], ",") \o SplitEach(Tail(items))

\* a normalisation that cuts the elements of a list at their commas as well
NormaliseSelectorsSplitsLists(sels) ==
    IF sels.form = "str" THEN StripNonBlank(Split(sels.items[1], ","))
    ELSE StripNonBlank(SplitEach(sels.items))

NormaliseSelectors(sels) ==
    IF sels.form = "str" THEN StripNonBlank(Split(sels.items[1], ",")) ELSE sels.items

HasKind(ps, kinds) == \E i \in 1..Len(ps) : ps[i].kind \in kinds

\* the tree wanted for every selector that yields spans
NeedsAstForSpans(ps) == HasKind(ps, {"def", "class", "lines", "pattern"})

\* needs_ast = any(p.kind in ("def", "class") for p in parsed)
NeedsAst(ps) == HasKind(ps, {"def", "class"})

\* the try block of the for loop: the resolver of one parsed selector
RunResolver(sel, text, lines, nodes, fp) ==
    IF sel.kind = "lines" THEN ResolveLines(lines, sel.value)
    ELSE IF sel.kind \in {"def", "class"} THEN FindAstNode(nodes, sel.kind, sel.value)
    ELSE IF sel.kind = "section" THEN ResolveSection(lines, sel.value)
    ELSE IF sel.kind = "pattern" THEN ResolvePattern(lines, sel.value)
    ELSE ResolvePath(text, sel.value, fp)

\* f"{sel.kind}:{sel.value}"
SelectorText(sel) == <<sel.kind, ":">> \o sel.value

Init ==
    /\ pc = "idle"
    /\ content = << <<>> >>
    /\ selectors = [form |-> "list", items |-> <<>>]
    /\ file_path = [none |-> TRUE, p |-> <<>>]
    /\ mode = "full"
    /\ sel_list = <<>>
    /\ parsed = <<>>
    /\ tree = NoTree
    /\ idx = 0
    /\ all_spans = <<>>
    /\ path_results = <<>>
    /\ ran = <<>>
    /\ result = NoResult

\* a caller invokes select(c, s, fp, m)
Call(c, s, fp, m) ==
    /\ pc = "idle"
    /\ pc' = "normalise"
    /\ content' = c
    /\ selectors' = s
    /\ file_path' = fp
    /\ mode' = m
    /\ UNCHANGED <<sel_list, parsed, tree, idx, all_spans, path_results, ran, result>>

Finish(r) == pc' = "done" /\ result' = r

\* a return of the lines of the content joined again, which drops a trailing newline
ReturnContentJoined(c) == TextResult(JoinLines(SplitLines(c)))

\* return content
ReturnContent(c) == TextResult(c)

\* normalisation of selectors and the two early returns for an empty list
Normalise ==
    /\ pc = "normalise"
    /\ sel_list' = NormaliseSelectors(selectors)
    /\ IF sel_list' = <<>> /\ mode = "interface" THEN Finish(FullInterface(source_lines))
       ELSE IF sel_list' = <<>> THEN Finish(ReturnContent(content))
       ELSE pc' = "parse" /\ UNCHANGED result
    /\ UNCHANGED <<content, selectors, file_path, mode, parsed, tree, idx, all_spans,
                   path_results, ran>>

\* parsed = _parse_selectors(selectors) and the early return when nothing was parsed
ParseStep ==
    /\ pc = "parse"
    /\ LET r == ParseSelectors(sel_list)
       IN  IF ~r.ok THEN Finish(ErrorResult(r.err)) /\ UNCHANGED parsed
           ELSE /\ parsed' = r.parsed
                /\ IF r.parsed = <<>> THEN Finish(ReturnContent(content))
                   ELSE pc' = "preflight" /\ UNCHANGED result
    /\ UNCHANGED <<content, selectors, file_path, mode, sel_list, tree, idx, all_spans,
                   path_results, ran>>

\* the file-type checks and ast.parse, in the order of the code
Preflight ==
    /\ pc = "preflight"
    /\ LET is_python == IsPython(file_path)
           is_markdown == IsMarkdown(file_path)
           is_json_or_yaml == IsJson(file_path) \/ IsYaml(file_path)
           needs_ast == NeedsAst(parsed)
           needs_md == HasKind(parsed, {"section"})
           needs_path == HasKind(parsed, {"path"})
           t == IF needs_ast THEN PyParse(source_lines) ELSE NoTree
       IN  IF needs_ast /\ ~is_python /\ ~file_path.none
           THEN Finish(ErrorResult(Err("AstRequiresPyFile", PathOf(file_path))))
                /\ UNCHANGED <<tree, idx>>
           ELSE IF needs_ast /\ ParseRaises(source_lines) = "SyntaxError"
           THEN Finish(ErrorResult(Err("PythonParseError", <<>>))) /\ UNCHANGED <<tree, idx>>
           ELSE IF needs_ast /\ ParseRaises(source_lines) # "none"
           THEN Finish(EscapedResult(ParseRaises(source_lines))) /\ UNCHANGED <<tree, idx>>
           ELSE IF needs_md /\ ~is_markdown /\ ~file_path.none
           THEN Finish(ErrorResult(Err("SectionRequiresMdFile", PathOf(file_path))))
                /\ tree' = t /\ UNCHANGED idx
           ELSE IF needs_path /\ ~is_json_or_yaml
           THEN Finish(ErrorResult(Err("PathRequiresJsonYamlFile", PathOf(file_path))))
                /\ tree' = t /\ UNCHANGED idx
           ELSE pc' = "resolve" /\ tree' = t /\ idx' = 1 /\ UNCHANGED result
    /\ UNCHANGED <<content, selectors, file_path, mode, sel_list, parsed, all_spans,
                   path_results, ran>>

\* a best-effort loop: a failing resolver is skipped
LoopContinuesAlways(r) == TRUE

\* one iteration of the loop over parsed: first error wins
LoopContinues(r) == r.status = "ok"

ResolveNext ==
    /\ pc = "resolve"
    /\ idx <= Len(parsed)
    /\ LET sel == parsed[idx]
           r == RunResolver(sel, content, source_lines, tree.nodes, file_path)
       IN  /\ ran' = Append(ran, idx)
           /\ IF LoopContinues(r)
              THEN /\ all_spans' = all_spans \o r.spans
                   /\ path_results' = IF sel.kind = "path" THEN Append(path_results, r.text)
                                      ELSE path_results
                   /\ idx' = idx + 1
                   /\ UNCHANGED <<pc, result>>
              ELSE /\ Finish(ErrorResult(IF r.status = "SelectorError" THEN r.err
                                         ELSE Err2("SelectorProcessingError",
                                                   SelectorText(sel), <<r.err.type>>)))
                   /\ UNCHANGED <<all_spans, path_results, idx>>
    /\ UNCHANGED <<content, selectors, file_path, mode, sel_list, parsed, tree>>

\* the final result: span-derived text, then the path fragments
BuildParts ==
    (IF all_spans # <<>>
     THEN IF mode = "interface" /\ IsPython(file_path) /\ tree.present
          THEN <<InterfaceFromSpans(source_lines, tree.nodes, all_spans)>>
          ELSE <<ExtractSpans(source_lines, all_spans)>>
     ELSE <<>>)
    \o path_results

Build ==
    /\ pc = "resolve"
    /\ idx > Len(parsed)
    /\ Finish(TextResult(JoinTexts(BuildParts)))
    /\ UNCHANGED <<content, selectors, file_path, mode, sel_list, parsed, tree, idx,
                   all_spans, path_results, ran>>

\* a return after which the spans collected by the call are still there
ReturnKeepingSpans ==
    /\ pc = "done"
    /\ pc' = "idle"
    /\ content' = << <<>> >>
    /\ selectors' = [form |-> "list", items |-> <<>>]
    /\ file_path' = [none |-> TRUE, p |-> <<>>]
    /\ mode' = "full"
    /\ sel_list' = <<>>
    /\ parsed' = <<>>
    /\ tree' = NoTree
    /\ idx' = 0
    /\ all_spans' = all_spans
    /\ path_results' = <<>>
    /\ ran' = <<>>
    /\ result' = NoResult

\* select has returned or raised; its locals are gone
Return ==
    /\ pc = "done"
    /\ pc' = "idle"
    /\ content' = << <<>> >>
    /\ selectors' = [form |-> "list", items |-> <<>>]
    /\ file_path' = [none |-> TRUE, p |-> <<>>]
    /\ mode' = "full"
    /\ sel_list' = <<>>
    /\ parsed' = <<>>
    /\ tree' = NoTree
    /\ idx' = 0
    /\ all_spans' = <<>>
    /\ path_results' = <<>>
    /\ ran' = <<>>
    /\ result' = NoResult

(***************************************************************************)
(* Callers.  Each family of calls exercises one resolver on all inputs up  *)
(* to a bound; every family runs the same select.                          *)
(***************************************************************************)
SeqsUpTo(S, n) == UNION {[1..k -> S] : k \in 0..n}

NoPath == [none |-> TRUE, p |-> <<>>]

FilePath(p) == [none |-> FALSE, p |-> p]

AsList(items) == [form |-> "list", items |-> items]

AsString(str) == [form |-> "str", items |-> <<str>>]

\* the text "L1\nL2\n...\nLt"
NumberedLines(t) == [i \in 1..t |-> <<"L">> \o DigitsOf(i)]

NumberedText(t) == JoinLines(NumberedLines(t))

LinesAlphabet == {"0", "1", "2", "3", "-", ",", " ", "x"}

LinesValues == SeqsUpTo(LinesAlphabet, MaxValLen) \ {<<>>}

LinesContents ==
    {NumberedText(t) : t \in 0..MaxLines} \cup {NumberedText(MaxLines) \o << <<>> >>}

\* select(content, ["lines:<value>"]) and select(content, "lines:<value>", "x.txt")
CallLines ==
    /\ pc = "idle"
    /\ \E c \in LinesContents, v \in LinesValues :
           \/ Call(c, AsList(<< <<"lines", ":">> \o v >>), NoPath, "full")
           \/ Call(c, AsString(<<"lines", ":">> \o v), FilePath(<<"x", ".txt">>), "full")

NextLines == CallLines \/ Normalise \/ ParseStep \/ Preflight \/ ResolveNext \/ Build \/ Return

SpecLines == Init /\ [][NextLines]_vars

\* the source lines the Python sources of the model are made of
PyLineShapes ==
    { <<"def", "f", "(", ")", ":", "pass">>,
      <<"def", "f", "(", ")", ":">>,
      <<"class", "A", ":">>,
      <<IND, "def", "f", "(", ")", ":", "pass">>,
      <<IND, "async", "def", "g", "(", ")", ":", "pass">>,
      <<IND, "class", "A", ":">>,
      <<IND, IND, "def", "f", "(", ")", ":", "pass">>,
      <<IND, "pass">>,
      <<"@", "d">>,
      <<IND, "@", "d">> }

\* sources with an expression too deep for the parser, alone, after and before
\* a malformed line, and inside a function
DeepSources ==
    { << <<DEEP>> >>,
      << <<"def", "f", "(", ")", ":">>, <<DEEP>> >>,
      << <<DEEP>>, <<"def", "f", "(", ")", ":">> >>,
      << <<"@", "d">>, <<DEEP>> >>,
      << <<"def", "f", "(", ")", ":">>, <<IND, DEEP>> >>,
      << <<"def", "f", "(", ")", ":", DEEP>> >> }

\* every well-formed source of at most MaxPyLines lines, and two that do not parse
PySources ==
    {src \in SeqsUpTo(PyLineShapes, MaxPyLines) : src # <<>> /\ PyParses(src)}
    \cup { << <<"def", "f", "(", ")", ":">> >>, << <<"class", "A", ":">>, <<"pass">> >> }
    \cup DeepSources

AstSelectors ==
    { <<"def", ":", "f">>, <<"def", ":", "g">>, <<"def", ":", " ", "f">>,
      <<"class", ":", "A">>, <<"class", ":", "A", ".", "f">>, <<"class", ":", "A", ".", "g">>,
      <<"class", ":", "B", ".", "f">> }

\* select(source, [selector], "m.py", mode)
CallAst ==
    /\ pc = "idle"
    /\ \E src \in PySources, sel \in AstSelectors, m \in {"full", "interface"} :
           Call(src, AsList(<<sel>>), FilePath(<<"m", ".py">>), m)

NextAst == CallAst \/ Normalise \/ ParseStep \/ Preflight \/ ResolveNext \/ Build \/ Return

SpecAst == Init /\ [][NextAst]_vars

\* the lines the Markdown contents of the model are made of
MdLineShapes ==
    { <<"#", " ", "A">>,
      <<"#", "#", " ", "A">>,
      <<"#", " ", " ", "A", " ">>,
      <<"#", " ", "B">>,
      <<"#", "#", " ", "B">>,
      <<"#", "A">>,
      <<"t">> }

MdContents == SeqsUpTo(MdLineShapes, MaxMdLines) \ {<<>>}

\* select(content, ["section:..."], file_path)
CallSection ==
    /\ pc = "idle"
    /\ \E c \in MdContents :
           \/ Call(c, AsList(<< <<"section", ":", "A">> >>), FilePath(<<"x", ".md">>), "full")
           \/ Call(c, AsList(<< <<"section", ":", " ", "A">> >>), NoPath, "full")
           \/ Call(c, AsString(<<"section", ":", "C">>), FilePath(<<"x", ".MD">>), "full")

NextSection ==
    CallSection \/ Normalise \/ ParseStep \/ Preflight \/ ResolveNext \/ Build \/ Return

SpecSection == Init /\ [][NextSection]_vars

\* the lines the contents of the pattern calls are made of
PatLineShapes == { <<"a">>, <<"b", "a">>, <<"/", "a", "/">> }

PatContents == {JoinLines(ls) : ls \in SeqsUpTo(PatLineShapes, MaxPatLines)}

PatAlphabet == {"a", "/", "^", "(", " "}

\* select(content, ["pattern:<expr>"]) and select(content, "pattern:/<expr>/", "x.txt")
CallPattern ==
    /\ pc = "idle"
    /\ \E c \in PatContents, e \in SeqsUpTo(PatAlphabet, MaxPatLen) :
           \/ Call(c, AsList(<< <<"pattern", ":">> \o e >>), NoPath, "full")
           \/ Call(c, AsString(<<"pattern", ":", "/">> \o e \o <<"/">>),
                   FilePath(<<"x", ".txt">>), "full")

NextPattern ==
    CallPattern \/ Normalise \/ ParseStep \/ Preflight \/ ResolveNext \/ Build \/ Return

SpecPattern == Init /\ [][NextPattern]_vars

\* the JSON values of the documents: atoms, and each smaller value put in a list
\* and in an object
RECURSIVE JsonValues(_)
JsonValues(d) ==
    LET atoms == {JNull, JInt(1), JStr(<<"s">>), JList(<<>>), JDict(<<>>, <<>>)}
    IN  IF d = 0 THEN atoms
        ELSE atoms \cup UNION {{JList(<<JInt(1), v>>),
                                JDict(<<"a">>, <<v>>),
                                JDict(<<"b", "a">>, <<JNull, v>>)} : v \in JsonValues(d - 1)}

\* a JSON text of a value, on one line
RECURSIVE Compact(_)
RECURSIVE CompactItems(_, _)
Compact(v) ==
    IF v.t = "NoneType" THEN <<"null">>
    ELSE IF v.t = "int" THEN DigitsOf(v.n)
    ELSE IF v.t = "str" THEN <<QUOTE>> \o v.s \o <<QUOTE>>
    ELSE IF v.t = "list" THEN <<"[">> \o CompactItems(v, 1) \o <<"]">>
    ELSE <<"{">> \o CompactItems(v, 1) \o <<"}">>

CompactItems(v, i) ==
    IF i > Len(v.items) THEN <<>>
    ELSE (IF i > 1 THEN <<",", " ">> ELSE <<>>)
         \o (IF v.t = "dict" THEN <<QUOTE, v.keys[i], QUOTE, ":">> ELSE <<>>)
         \o Compact(v.items[i])
         \o CompactItems(v, i + 1)

JsonDocs ==
    {<<Compact(v)>> : v \in JsonValues(MaxJsonDepth)}
    \cup {<< <<"{", QUOTE, "a", QUOTE, "1", "}">> >>, << <<"[", "1", ",">>, <<"]">> >>}

\* the pieces the path expressions are made of
PathPieces == {<<"a">>, <<".", "b">>, <<"[", "0", "]">>, <<"[", "1", "]">>, <<"[", "2", "]">>}

RECURSIVE Concat(_)
Concat(pieces) == IF pieces = <<>> THEN <<>> ELSE pieces[1] \o Concat(Tail(pieces))

JsonPaths == {Concat(ps) : ps \in SeqsUpTo(PathPieces, MaxPathLen) \ {<<>>}}

\* select(content, ["path:<expr>"], "d.json"), and the string form on "d.JSON" and
\* "d.yaml"
CallJson ==
    /\ pc = "idle"
    /\ \E c \in JsonDocs :
           \/ \E v \in JsonPaths :
                  Call(c, AsList(<< <<"path", ":">> \o v >>), FilePath(<<"d", ".json">>), "full")
           \/ \E v \in PathPieces, suf \in {".JSON", ".yaml"} :
                  Call(c, AsString(<<"path", ":">> \o v), FilePath(<<"d", suf>>), "interface")

NextJson == CallJson \/ Normalise \/ ParseStep \/ Preflight \/ ResolveNext \/ Build \/ Return

SpecJson == Init /\ [][NextJson]_vars

\* the contents of the mixed calls: a Python source with a Markdown heading in a
\* comment, a source that does not parse, and a JSON document that is also a
\* Python expression
MixedPython == << <<"def", "f", "(", ")", ":", "pass">>, <<"a">>, <<"#", " ", "A">>, <<"t">> >>

MixedBroken == << <<"def", "f", "(", ")", ":">> >>

MixedJson == << <<"{", QUOTE, "a", QUOTE, ":", " ", "1", "}">> >>

MixedContexts ==
    {[c |-> MixedPython, fp |-> fp] :
         fp \in {NoPath, FilePath(<<"m", ".py">>), FilePath(<<"x", ".md">>),
                 FilePath(<<"x", ".txt">>), FilePath(<<"d", ".json">>)}}
    \cup {[c |-> MixedBroken, fp |-> fp] : fp \in {NoPath, FilePath(<<"m", ".py">>)}}
    \cup {[c |-> MixedJson, fp |-> FilePath(<<"d", ".json">>)]}

\* the selector strings of the mixed calls: resolving, failing, crashing, malformed
\* and blank ones
MixedPool ==
    { <<"lines", ":", "1">>, <<"lines", ":", "2", "-", "3">>, <<"lines", ":", "9">>,
      <<"lines", ":", "x">>, <<"def", ":", "f">>, <<"def", ":", "z">>,
      <<"section", ":", "A">>, <<"section", ":", "Z">>,
      <<"pattern", ":", "t">>, <<"pattern", ":", "z">>, <<"path", ":", "a">>,
      <<"bad">>, <<"lines", ":">>, <<" ">> }

\* ','.join(items)
RECURSIVE JoinCommas(_)
JoinCommas(items) ==
    IF items = <<>> THEN <<>>
    ELSE IF Len(items) = 1 THEN items[1]
         ELSE items[1] \o <<",">> \o JoinCommas(Tail(items))

\* select(content, [s1, ..., sn], file_path) and select(content, "s1,...,sn")
CallMixed ==
    /\ pc = "idle"
    /\ \E sels \in SeqsUpTo(MixedPool, MaxSelectors) :
           \/ \E x \in MixedContexts : Call(x.c, AsList(sels), x.fp, "full")
           \/ Call(MixedPython, AsString(JoinCommas(sels)), NoPath, "full")

NextMixed == CallMixed \/ Normalise \/ ParseStep \/ Preflight \/ ResolveNext \/ Build \/ Return

SpecMixed == Init /\ [][NextMixed]_vars

\* selector inputs that hold no selector: the empty list, the empty string, and the
\* lists and strings whose pieces are all blank
EmptyInputs == {AsList(<<>>), AsString(<<>>)}

BlankLists == {AsList(<< <<>> >>), AsList(<< <<" ", " ">> >>), AsList(<< <<>>, <<" ">> >>)}

BlankStrings == {AsString(<<" ", ",", " ">>), AsString(<<",">>), AsString(<<" ">>)}

\* modules with imports, assignments, a docstring and private names
ModuleSources ==
    { << <<"import", "os">>, <<"x", "=", "1">>, <<"def", "f", "(", ")", ":", "pass">> >>,
      << <<QUOTE, "doc", QUOTE>>, <<"def", "_p", "(", ")", ":", "pass">>,
         <<"def", "f", "(", ")", ":">>, <<IND, QUOTE, "doc", QUOTE>>, <<IND, "pass">> >>,
      << <<"x", ":", "int">>, <<"class", "A", ":">>, <<IND, "x", ":", "int">>,
         <<IND, "def", "__init__", "(", ")", ":", "pass">>,
         <<IND, "def", "_q", "(", ")", ":", "pass">> >>,
      << <<"class", "_C", ":">>, <<IND, "pass">>, <<"pass">> >>,
      << <<"def", "f", "(", ")", ":", "pass">>, <<>> >> }

NoSelectorContents == LinesContents \cup PySources \cup ModuleSources \cup {MixedJson}

NoSelectorPaths ==
    {NoPath, FilePath(<<"m", ".py">>), FilePath(<<"x", ".md">>), FilePath(<<"d", ".json">>)}

\* select(content, [], file_path, mode), select(content, "", ...), select(content, [""], ...),
\* select(content, " , ", ...)
CallNoSelectors ==
    /\ pc = "idle"
    /\ \E c \in NoSelectorContents, s \in EmptyInputs \cup BlankLists \cup BlankStrings,
          fp \in NoSelectorPaths, m \in {"full", "interface"} :
           Call(c, s, fp, m)

NextNoSelectors == CallNoSelectors \/ Normalise \/ ParseStep \/ Return

SpecNoSelectors == Init /\ [][NextNoSelectors]_vars

\* comma-free pieces of a selector input: padded, plain, failing, malformed and blank
FormPieces ==
    { <<" ", "lines", ":", "1", " ">>, <<"lines", ":", "2", "-", "3">>, <<"lines", ":", "9">>,
      <<"def", ":", "f">>, <<"pattern", ":", "t">>, <<"bad">>, <<" ">>, <<>> }

\* list elements that hold a comma
CommaElements == { <<"lines", ":", "1", ",", "3">>, <<"lines", ":", "1", ",", " ", "4">> }

FormPaths == {NoPath, FilePath(<<"m", ".py">>)}

\* select(content, "p1,...,pn", ...), select(content, [p1, ..., pn], ...) and
\* select(content, ["lines:1,3"], ...)
CallForms ==
    /\ pc = "idle"
    /\ \E fp \in FormPaths, m \in {"full", "interface"} :
           \/ \E ps \in SeqsUpTo(FormPieces, MaxPieces) :
                  \/ Call(MixedPython, AsString(JoinCommas(ps)), fp, m)
                  \/ Call(MixedPython, AsList(ps), fp, m)
           \/ \E e \in CommaElements :
                  \/ Call(MixedPython, AsList(<<e>>), fp, m)
                  \/ Call(MixedPython, AsString(e), fp, m)

NextForms == CallForms \/ Normalise \/ ParseStep \/ Preflight \/ ResolveNext \/ Build \/ Return

SpecForms == Init /\ [][NextForms]_vars

\* a JSON document of three lines
ComposeJson ==
    << <<"{", QUOTE, "a", QUOTE, ":", " ", "[", "1", ",", " ", QUOTE, "s", QUOTE, "]", ",">>,
       <<QUOTE, "b", QUOTE, ":", " ", "null", ",">>,
       <<QUOTE, "t", QUOTE, ":", " ", "1", "}">> >>

\* line-based and path selectors on the document: resolving ones, failing ones and a
\* lines: value made of a comma
ComposePool ==
    { <<"lines", ":", "1">>, <<"lines", ":", "3">>, <<"lines", ":", "2", "-", "3">>,
      <<"lines", ":", ",">>, <<"pattern", ":", "t">>, <<"pattern", ":", "z">>,
      <<"path", ":", "a">>, <<"path", ":", "b">>, <<"path", ":", "t">>, <<"path", ":", "z">> }

\* select(document, [s1, ..., sn], "d.json", mode)
CallCompose ==
    /\ pc = "idle"
    /\ \E sels \in SeqsUpTo(ComposePool, MaxPieces) \ {<<>>}, m \in {"full", "interface"} :
           Call(ComposeJson, AsList(sels), FilePath(<<"d", ".json">>), m)

NextCompose == CallCompose \/ Normalise \/ ParseStep \/ Preflight \/ ResolveNext \/ Build \/ Return

SpecCompose == Init /\ [][NextCompose]_vars

\* a class with a docstring, an annotated attribute, __init__, a public and a
\* private method
ClassSource ==
    << <<"class", "A", ":">>,
       <<IND, QUOTE, "doc", QUOTE>>,
       <<IND, "x", ":", "int">>,
       <<IND, "def", "__init__", "(", ")", ":">>,
       <<IND, IND, "pass">>,
       <<IND, "def", "f", "(", ")", ":">>,
       <<IND, IND, "pass">>,
       <<IND, "def", "_q", "(", ")", ":">>,
       <<IND, IND, "pass">> >>

\* an assignment, a function, a private function next to it, a class and a private class
ModuleSource ==
    << <<"x", "=", "1">>,
       <<"def", "f", "(", ")", ":">>,
       <<IND, "pass">>,
       <<"def", "_p", "(", ")", ":">>,
       <<IND, "pass">>,
       <<"class", "A", ":">>,
       <<IND, "def", "g", "(", ")", ":", "pass">>,
       <<"class", "_C", ":">>,
       <<IND, "pass">> >>

\* three classes named A, one of them nested; g is defined in the nested and in the
\* last one, f in the first one
NestedSource ==
    << <<"class", "A", ":">>,
       <<IND, "def", "f", "(", ")", ":", "pass">>,
       <<IND, "class", "A", ":">>,
       <<IND, IND, "def", "g", "(", ")", ":", "pass">>,
       <<"class", "A", ":">>,
       <<IND, "def", "g", "(", ")", ":", "pass">> >>

\* class A defined twice: g in the first definition only, f in both
RedefinedSource ==
    << <<"class", "A", ":">>,
       <<IND, "def", "g", "(", ")", ":", "pass">>,
       <<IND, "def", "f", "(", ")", ":", "pass">>,
       <<"x", "=", "1">>,
       <<"class", "A", ":">>,
       <<IND, "def", "f", "(", ")", ":", "pass">> >>

InterfaceSources == {ClassSource, ModuleSource, NestedSource, RedefinedSource}

InterfacePool ==
    { <<"class", ":", "A">>, <<"class", ":", "A", ".", "f">>, <<"class", ":", "A", ".", "g">>,
      <<"class", ":", "A", ".", "_q">>, <<"def", ":", "f">>, <<"def", ":", "g">>,
      <<"lines", ":", "1">>, <<"lines", ":", "4", "-", "5">>, <<"pattern", ":", "x">> }

\* select(source, [s1, ..., sn], "m.py", mode) and select(source, [s], mode=mode)
CallInterface ==
    /\ pc = "idle"
    /\ \E src \in InterfaceSources, m \in {"full", "interface"} :
           \/ \E sels \in SeqsUpTo(InterfacePool, MaxSelectors) :
                  Call(src, AsList(sels), FilePath(<<"m", ".py">>), m)
           \/ \E sel \in InterfacePool : Call(src, AsList(<<sel>>), NoPath, m)

NextInterface ==
    CallInterface \/ Normalise \/ ParseStep \/ Preflight \/ ResolveNext \/ Build \/ Return

SpecInterface == Init /\ [][NextInterface]_vars

\* line-based selectors that resolve on the module and on the class defined twice
OrderPool ==
    { <<"class", ":", "A">>, <<"def", ":", "g">>, <<"lines", ":", "1">>,
      <<"lines", ":", "4", "-", "5">>, <<"pattern", ":", "x">> }

\* select(source, [s1, ..., sn], "m.py", mode) with selectors in every order
CallOrder ==
    /\ pc = "idle"
    /\ \E src \in {ModuleSource, RedefinedSource},
          sels \in SeqsUpTo(OrderPool, MaxSelectors) \ {<<>>}, m \in {"full", "interface"} :
           Call(src, AsList(sels), FilePath(<<"m", ".py">>), m)

NextOrder == CallOrder \/ Normalise \/ ParseStep \/ Preflight \/ ResolveNext \/ Build \/ Return

SpecOrder == Init /\ [][NextOrder]_vars

\* lines:N-M for every 1 <= N <= M <= MaxLines: every span of a content of MaxLines lines
RangeSelectors ==
    {<<"lines", ":">> \o DigitsOf(nm[1]) \o <<"-">> \o DigitsOf(nm[2]) :
        nm \in {x \in (1..MaxLines) \X (1..MaxLines) : x[1] <= x[2]}}

\* select(content, ["lines:a-b", "lines:c-d", ...]) with the ranges in every order
CallSpans ==
    /\ pc = "idle"
    /\ \E sels \in SeqsUpTo(RangeSelectors, MaxSpans) \ {<<>>} :
           Call(NumberedText(MaxLines), AsList(sels), NoPath, "full")

NextSpans == CallSpans \/ Normalise \/ ParseStep \/ Preflight \/ ResolveNext \/ Build \/ Return

SpecSpans == Init /\ [][NextSpans]_vars

\* every caller together
Next ==
    \/ NextLines \/ NextAst \/ NextSection \/ NextPattern \/ NextJson \/ NextMixed
    \/ NextNoSelectors \/ NextForms \/ NextCompose \/ NextInterface \/ NextOrder \/ NextSpans

Spec == Init /\ [][Next]_vars

(***************************************************************************)
(* Properties                                                              *)
(***************************************************************************)
Done == pc = "done"

Returned == Done /\ result.kind = "text"

RaisedError(type) == Done /\ result.kind = "error" /\ result.err.type = type

\* the lines of a list at the 1-based positions in idxs, ascending from position i
RECURSIVE PickLines(_, _, _)
PickLines(lines, idxs, i) ==
    IF i > Len(lines) THEN <<>>
    ELSE (IF i \in idxs THEN <<lines[i]>> ELSE <<>>) \o PickLines(lines, idxs, i + 1)

\* the text made of the lines of the content at the 1-based positions in idxs
TextOfLines(idxs) == JoinLines(PickLines(source_lines, idxs, 1))

\* the call was made with the single selector kind:value (list or string form)
SingleSelector(kind, value) == selectors.items = << <<kind, ":">> \o value >>

\* the pieces of the selector input: the elements of a list, the comma-separated
\* parts of a string
Pieces == IF selectors.form = "str" THEN Split(selectors.items[1], ",") ELSE selectors.items

NonBlankPieces == {i \in 1..Len(Pieces) : Strip(Pieces[i]) # <<>>}

\* the piece has the shape kind:value with an accepted kind and a non-empty value
WellFormedPiece(piece) ==
    LET raw == Strip(piece)
    IN  Len(raw) > 2 /\ raw[2] = ":"
        /\ raw[1] \in {"lines", "def", "class", "section", "pattern", "path"}

AllWellFormed == \A i \in NonBlankPieces : WellFormedPiece(Pieces[i])

\* some piece is a well-formed selector of one of the kinds
HasPieceOfKind(kinds) ==
    \E i \in NonBlankPieces : WellFormedPiece(Pieces[i]) /\ Strip(Pieces[i])[1] \in kinds

\* C1: in full mode, when the selectors are all line-based and all resolve, the
\* result is the content lines whose 0-based index lies in some resolved span, in
\* ascending order, each once, joined by "\n" and nothing else.
C1_UnionOfSpans ==
    (Done /\ mode = "full" /\ parsed # <<>> /\ idx > Len(parsed)
          /\ \A i \in 1..Len(parsed) : parsed[i].kind # "path") =>
        /\ Returned
        /\ result.text
               = TextOfLines({i \in 1..Len(source_lines) :
                                 \E k \in 1..Len(all_spans) :
                                     all_spans[k].start < i /\ i <= all_spans[k].end})

\* lines:2-3 and section:A overlap on line 3 and leave line 1 out
C1_Witness ==
    /\ Returned
    /\ selectors.items = << <<"lines", ":", "2", "-", "3">>, <<"section", ":", "A">> >>
    /\ content = MixedPython
    /\ all_spans = <<Span(1, 3), Span(2, 4)>>
    /\ result.text = << <<"a">>, <<"#", " ", "A">>, <<"t">> >>

\* def:f and pattern:a select lines 1 and 2, and section:A, given first, lines 3-4:
\* the result is in file order
C1_WitnessOrder ==
    /\ Returned
    /\ selectors.items = << <<"section", ":", "A">>, <<"def", ":", "f">> >>
    /\ all_spans = <<Span(2, 4), Span(0, 1)>>
    /\ result.text = << <<"def", "f", "(", ")", ":", "pass">>, <<"#", " ", "A">>, <<"t">> >>

\* the well-formed parts of a lines: value for a content of t lines, each with the
\* 1-based line numbers it denotes
LinesParts(t) ==
    {[s |-> IntStr(n), idxs |-> {n}] : n \in 1..t}
    \cup {[s |-> IntStr(nm[1]) \o <<"-">> \o IntStr(nm[2]), idxs |-> nm[1]..nm[2]] :
              nm \in {x \in (1..t) \X (1..t) : x[1] <= x[2]}}
    \cup {[s |-> IntStr(n) \o <<"-">>, idxs |-> n..t] : n \in 1..t}
    \cup {[s |-> <<"-">> \o IntStr(m), idxs |-> 1..m] : m \in 1..t}

\* C2: for a content of T lines, lines:N selects line N, lines:N-M lines N..M,
\* lines:N- lines N..T, lines:-M lines 1..M (1-based, inclusive), and a value
\* "p,q" of two such parts selects the union of the lines of p and q.
C2_LinesOneBasedInclusive ==
    Done =>
        LET parts == LinesParts(Len(source_lines))
        IN  /\ \A p \in parts :
                   SingleSelector("lines", p.s) => result = TextResult(TextOfLines(p.idxs))
            /\ \A p \in parts, q \in parts :
                   (selectors.form = "list"
                    /\ SingleSelector("lines", p.s \o <<",">> \o q.s))
                       => result = TextResult(TextOfLines(p.idxs \cup q.idxs))

\* a two-sided range and a comma-joined value have been resolved
C2_Witness ==
    /\ Returned
    /\ Len(source_lines) = 3
    /\ \/ SingleSelector("lines", <<"2", "-", "3">>) /\ result.text = <<<<"L", "2">>, <<"L", "3">>>>
       \/ SingleSelector("lines", <<"3", ",", "1">>) /\ result.text = <<<<"L", "1">>, <<"L", "3">>>>

\* the statement on line i (1-based) of the content is a def or async def of name
IsFunctionLine(i, name) ==
    LET line == source_lines[i]
        st == PyStmt(line)
    IN  ~PyBlank(line) /\ (IsDefStmt(st) \/ IsAsyncDefStmt(st)) /\ NodeName(st) = name

\* the statement on line i (1-based) of the content is a class statement of name
IsClassLine(i, name) ==
    LET line == source_lines[i]
        st == PyStmt(line)
    IN  ~PyBlank(line) /\ IsClassStmt(st) /\ NodeName(st) = name

\* the lines of the definition whose header is on line i: from its first decorator
\* (the header when undecorated) through the last line of its body
DefinitionLines(i) ==
    LET d == FirstDecorator(source_lines, i)
    IN  (IF d = 0 THEN i ELSE d)..EndLineno(source_lines, i)

FunctionsNamed(name) == {i \in 1..Len(source_lines) : IsFunctionLine(i, name)}

ClassesNamed(name) == {i \in 1..Len(source_lines) : IsClassLine(i, name)}

\* the functions named name among the direct body statements of the class on line c
DirectMethods(c, name) == {i \in FunctionsNamed(name) : ParentLine(source_lines, i) = c}

Identifiers == {"f", "g", "h", "A", "B"}

\* C3: def:name selects every function and async function called name, at any
\* nesting depth; each contributes its lines from the first decorator through the
\* end of the body; 'Function not found' is raised iff there is no such function.
C3_DefSelectsEveryFunction ==
    \A name \in Identifiers :
        (Done /\ SingleSelector("def", <<name>>) /\ tree.present) =>
            LET fs == FunctionsNamed(<<name>>)
            IN  /\ RaisedError("FunctionNotFound") <=> fs = {}
                /\ fs # {} => result.kind = "text"
                /\ (fs # {} /\ mode = "full") =>
                       result.text = TextOfLines(UNION {DefinitionLines(i) : i \in fs})

\* def:f has returned a decorated function and a second function of the same name
C3_Witness ==
    /\ Returned
    /\ mode = "full"
    /\ SingleSelector("def", <<"f">>)
    /\ Cardinality(FunctionsNamed(<<"f">>)) = 2
    /\ \E i \in FunctionsNamed(<<"f">>) : FirstDecorator(source_lines, i) # 0
    /\ Len(result.text) = 3

\* C4: class:Name.method raises 'Class not found' when there is no class Name,
\* 'Method not found' (naming method and class) when a class Name has no function
\* called method among its direct body statements, and otherwise returns exactly
\* the lines of the methods themselves.
C4_ClassMethod ==
    \A cls \in Identifiers, meth \in Identifiers :
        (Done /\ SingleSelector("class", <<cls, ".", meth>>) /\ tree.present) =>
            LET cs == ClassesNamed(<<cls>>)
                ms == UNION {DirectMethods(c, <<meth>>) : c \in cs}
                lacking == {c \in cs : DirectMethods(c, <<meth>>) = {}}
            IN  /\ cs = {} =>
                       RaisedError("ClassNotFound") /\ result.err.sel = <<cls>>
                /\ lacking # {} =>
                       /\ RaisedError("MethodNotFound")
                       /\ result.err.sel = <<meth>>
                       /\ result.err.aux = <<cls>>
                /\ (cs # {} /\ lacking = {}) => result.kind = "text"
                /\ (cs # {} /\ lacking = {} /\ mode = "full") =>
                       result.text = TextOfLines(UNION {DefinitionLines(i) : i \in ms})

\* class:A.f has returned the one line of method f of a class that has another member
C4_Witness ==
    /\ Returned
    /\ mode = "full"
    /\ SingleSelector("class", <<"A", ".", "f">>)
    /\ Len(source_lines) = 3
    /\ DirectMethods(1, <<"g">>) # {}
    /\ result.text = << <<IND, "def", "f", "(", ")", ":", "pass">> >>

\* line i (1-based) of the content is a heading whose trimmed text is text
IsHeadingLine(i, text) ==
    HeadingMatch(source_lines[i]) /\ HeadingText(source_lines[i]) = text

\* the lines of the section headed by line i: up to, excluding, the next heading
\* of the same or a higher level, or to the end of the content
SectionLines(i) ==
    LET stops == {j \in (i + 1)..Len(source_lines) :
                      /\ HeadingMatch(source_lines[j])
                      /\ HeadingLevel(source_lines[j]) <= HeadingLevel(source_lines[i])}
    IN  {k \in i..Len(source_lines) : \A j \in stops : k < j}

\* C5: section:Heading returns the union, over every heading whose trimmed text is
\* the trimmed requested text, of the lines from the heading up to the next heading
\* of level <= its own (or the end); no such heading raises 'Markdown section not found'.
C5_SectionUnion ==
    \A v \in {<<"A">>, <<" ", "A">>, <<"C">>} :
        (Done /\ SingleSelector("section", v)) =>
            LET heads == {i \in 1..Len(source_lines) : IsHeadingLine(i, Strip(v))}
            IN  IF heads = {}
                THEN RaisedError("SectionNotFound") /\ result.err.sel = v
                ELSE result = TextResult(TextOfLines(UNION {SectionLines(i) : i \in heads}))

\* section:A has returned a section that holds a deeper heading of the same text
\* and stops at the next heading of the same level
C5_Witness ==
    /\ Returned
    /\ SingleSelector("section", <<"A">>)
    /\ source_lines = << <<"#", " ", "A">>, <<"#", "#", " ", "A">>, <<"#", " ", "B">> >>
    /\ result.text = << <<"#", " ", "A">>, <<"#", "#", " ", "A">> >>

\* the regular expressions the claim is checked on: literal symbols, possibly
\* anchored at the start of the line by a leading "^"
IsExpression(e) ==
    e # <<>> /\ \A i \in 1..Len(e) : e[i] # "(" /\ (i > 1 => e[i] # "^")

\* the expression matches somewhere in the line
MatchesAnywhere(e, line) ==
    IF e[1] = "^" THEN OccursAt(line, Tail(e), 0)
    ELSE \E k \in 0..Len(line) : OccursAt(line, e, k)

MatchingLines(e) == {i \in 1..Len(source_lines) : MatchesAnywhere(e, source_lines[i])}

\* the outcome the claim states for an expression e
PatternOutcome(e) ==
    IF MatchingLines(e) = {} THEN RaisedError("NoLinesMatched")
    ELSE result = TextResult(TextOfLines(MatchingLines(e)))

\* the call has the one selector pattern:<value>
PatternCall ==
    /\ Len(selectors.items) = 1
    /\ Len(selectors.items[1]) > 2
    /\ SubSeq(selectors.items[1], 1, 2) = <<"pattern", ":">>

PatternValue == SubSeq(selectors.items[1], 3, Len(selectors.items[1]))

\* the 1-based numbers of the lines this call selected
SelectedNow == IF Returned THEN {all_spans[k].start + 1 : k \in 1..Len(all_spans)} ELSE {}

\* the 1-based numbers of the lines a pattern: value selects on the same content
SelectedBy(value) ==
    LET r == ResolvePattern(source_lines, value)
    IN  IF r.status = "ok" THEN {r.spans[k].start + 1 : k \in 1..Len(r.spans)} ELSE {}

IsSlashWrapped(e) == Len(e) >= 2 /\ e[1] = "/" /\ Last(e) = "/"

Unwrapped(v) == SubSeq(v, 2, Len(v) - 1)

\* the parts of C6 about the form pattern:/re/
C6_Wrapped ==
    (Done /\ PatternCall /\ IsSlashWrapped(PatternValue)) =>
        /\ IsExpression(Unwrapped(PatternValue)) => PatternOutcome(Unwrapped(PatternValue))
        /\ Unwrapped(PatternValue) = <<>> => RaisedError("EmptyRegexPattern")

\* C6 as stated: pattern: selects exactly the lines on which the expression matches
\* anywhere, in file order; pattern:/re/ and bare pattern:re select the same lines
\* for every re; an empty expression raises 'Empty regex pattern' and an expression
\* matching no line raises 'No lines matched pattern'.
C6_Original ==
    /\ C6_Wrapped
    /\ (Done /\ PatternCall /\ IsExpression(PatternValue)) =>
           /\ PatternOutcome(PatternValue)
           /\ SelectedNow = SelectedBy(<<"/">> \o PatternValue \o <<"/">>)

\* C6 amended: as C6, with the bare form pattern:re equivalent to pattern:/re/ only
\* for an re without leading or trailing whitespace that is not itself enclosed in
\* slashes (a bare value /x/ is read as the expression x).
C6_PatternSelectsMatchingLines ==
    /\ C6_Wrapped
    /\ (Done /\ PatternCall /\ IsExpression(PatternValue)
             /\ Strip(PatternValue) = PatternValue /\ ~IsSlashWrapped(PatternValue)) =>
           /\ PatternOutcome(PatternValue)
           /\ SelectedNow = SelectedBy(<<"/">> \o PatternValue \o <<"/">>)

\* pattern:a has returned the two lines that hold an "a", one of them not at its start
C6_Witness ==
    /\ Returned
    /\ SingleSelector("pattern", <<"a">>)
    /\ source_lines = << <<"b", "a">>, <<"a">> >>
    /\ result.text = << <<"b", "a">>, <<"a">> >>

\* the call has the one selector path:<value> on a JSON file
PathCall ==
    /\ Len(selectors.items) = 1
    /\ Len(selectors.items[1]) > 2
    /\ SubSeq(selectors.items[1], 1, 2) = <<"path", ":">>
    /\ IsJson(file_path)

PathSegments == ParsePathSegments(SubSeq(selectors.items[1], 3, Len(selectors.items[1])))

\* the segment can be applied to the value
Applies(v, seg) ==
    IF seg.int THEN v.t = "list" /\ seg.n >= 0 /\ seg.n < Len(v.items)
    ELSE v.t = "dict" /\ \E i \in 1..Len(v.keys) : v.keys[i] = seg.key

\* the element or member the segment names in the value
Member(v, seg) ==
    IF seg.int THEN v.items[seg.n + 1]
    ELSE v.items[CHOOSE i \in 1..Len(v.keys) : v.keys[i] = seg.key]

\* the value reached from v after the first k segments, all of which apply
RECURSIVE ValueAt(_, _, _)
ValueAt(v, segs, k) == IF k = 0 THEN v ELSE Member(ValueAt(v, segs, k - 1), segs[k])

\* the first k segments all apply, one after the other
AllApply(v, segs, k) == \A j \in 1..k : Applies(ValueAt(v, segs, j - 1), segs[j])

\* the error the claim names for a segment that cannot be applied to a value
SegmentError(v, seg) ==
    IF seg.int THEN (IF v.t # "list" THEN "ExpectedArray" ELSE "ArrayIndexOutOfRange")
    ELSE (IF v.t # "dict" THEN "ExpectedObject" ELSE "KeyNotFound")

\* C7: traversal fails at the first segment that cannot be applied, with 'Expected
\* array', 'Array index out of range', 'Expected object' or 'Key not found' by the
\* case of that segment; when every segment applies the returned text, parsed again
\* as JSON, is the value at that position of the parsed document.
C7_PathTraversal ==
    (Done /\ PathCall /\ JsonLoads(content).ok /\ PathSegments.status = "ok") =>
        LET data == JsonLoads(content).val
            segs == PathSegments.segs
        IN  /\ \A k \in 1..Len(segs) :
                   (AllApply(data, segs, k - 1) /\ ~Applies(ValueAt(data, segs, k - 1), segs[k]))
                       => RaisedError(SegmentError(ValueAt(data, segs, k - 1), segs[k]))
            /\ AllApply(data, segs, Len(segs)) =>
                   /\ Returned
                   /\ JsonLoads(result.text).ok
                   /\ JsonLoads(result.text).val = ValueAt(data, segs, Len(segs))

\* path:a on {"b": null, "a": [1, "s"]} has returned the list, pretty-printed
C7_Witness ==
    /\ Returned
    /\ PathCall
    /\ SingleSelector("path", <<"a">>)
    /\ JsonLoads(content).ok
    /\ JsonLoads(content).val = JDict(<<"b", "a">>, <<JNull, JList(<<JInt(1), JStr(<<"s">>)>>)>>)
    /\ result.text = << <<"[">>, <<" ", " ", "1", ",">>, <<" ", " ", QUOTE, "s", QUOTE>>, <<"]">> >>

\* path:a[2] on {"a": [1, null]} has raised 'Array index out of range'
C7_WitnessFails ==
    /\ RaisedError("ArrayIndexOutOfRange")
    /\ PathCall
    /\ result.err.n = 2
    /\ result.err.total = 2

\* C8: when some non-blank piece of the selector input is not kind:value with an
\* accepted kind and a non-empty value, select raises 'Malformed selector' naming
\* the first such piece, before any file-type check, parse or resolver.
C8_MalformedFirst ==
    (Done /\ ~AllWellFormed) =>
        LET bad == {i \in NonBlankPieces : ~WellFormedPiece(Pieces[i])}
            first == CHOOSE i \in bad : \A j \in bad : i <= j
        IN  /\ RaisedError("MalformedSelector")
            /\ result.err.sel = Strip(Pieces[first])
            /\ ran = <<>>
            /\ ~tree.present
            /\ idx = 0

\* lines:9 would fail to resolve, but the malformed piece after it is reported
C8_Witness ==
    /\ RaisedError("MalformedSelector")
    /\ selectors.items = << <<"lines", ":", "9">>, <<"bad">> >>
    /\ result.err.sel = <<"bad">>

\* the file type of the call does not fit one of its selectors
Incompatible ==
    \/ HasPieceOfKind({"def", "class"}) /\ ~file_path.none /\ ~HasSuffix(file_path, {".py"})
    \/ HasPieceOfKind({"section"}) /\ ~file_path.none
           /\ ~HasSuffix(file_path, {".md", ".markdown"})
    \/ HasPieceOfKind({"path"})
           /\ (file_path.none \/ ~HasSuffix(file_path, {".json", ".yaml", ".yml"}))

Outcome(i) == RunResolver(parsed[i], content, source_lines, tree.nodes, file_path)

\* C10: past the pre-flight checks the resolvers run in list order; the error of
\* the earliest failing one is raised, no later resolver runs and no text is
\* returned; when none fails they have all run.
C10_FirstErrorWins ==
    /\ \A i \in 1..Len(ran) : ran[i] = i
    /\ (Done /\ idx >= 1) =>
           LET failing == {i \in 1..Len(parsed) : Outcome(i).status # "ok"}
           IN  IF failing = {}
               THEN Returned /\ Len(ran) = Len(parsed)
               ELSE LET first == CHOOSE i \in failing : \A j \in failing : i <= j
                    IN  /\ result.kind = "error"
                        /\ result.text = <<>>
                        /\ Len(ran) = first
                        /\ IF Outcome(first).status = "SelectorError"
                           THEN result.err = Outcome(first).err
                           ELSE /\ result.err.type = "SelectorProcessingError"
                                /\ result.err.sel = SelectorText(parsed[first])

\* lines:1 has resolved, pattern:z has failed: its error is raised without line 1
C10_Witness ==
    /\ RaisedError("NoLinesMatched")
    /\ selectors.items = << <<"lines", ":", "1">>, <<"pattern", ":", "z">> >>
    /\ ran = <<1, 2>>
    /\ all_spans = <<Span(0, 1)>>

\* lines:9 has failed and the resolver of def:f after it has not run
C10_WitnessLaterNotRun ==
    /\ RaisedError("LineOutOfRange")
    /\ selectors.items = << <<"lines", ":", "9">>, <<"def", ":", "f">> >>
    /\ ran = <<1>>

\* C11: every failing call raises SelectorError and nothing else; a resolver's own
\* SelectorError is raised unchanged and any other exception of a resolver is
\* wrapped in a SelectorError naming the selector as kind:value.
C11_OnlySelectorError ==
    /\ Done => result.kind \in {"text", "error"}
    /\ (Done /\ idx >= 1 /\ idx <= Len(parsed)) =>
           /\ Outcome(idx).status = "SelectorError" => result.err = Outcome(idx).err
           /\ Outcome(idx).status = "Exception" =>
                  /\ result.err.type = "SelectorProcessingError"
                  /\ result.err.sel = SelectorText(parsed[idx])

\* def:f on a source whose only statement is too deep for the parser: the
\* MemoryError of ast.parse has left select
C11_Escaped ==
    /\ Done
    /\ content = << <<DEEP>> >>
    /\ SingleSelector("def", <<"f">>)
    /\ result = EscapedResult("MemoryError")

\* C12: a line-based selector never resolves to zero spans silently: when the
\* selectors are all line-based, either select raises or the resolver of each has
\* given at least one span, every span with start < end.
C12_NeverZeroSpans ==
    (Done /\ parsed # <<>> /\ \A i \in 1..Len(parsed) : parsed[i].kind # "path") =>
        \/ result.kind = "error"
        \/ \A i \in 1..Len(parsed) :
               /\ Outcome(i).spans # <<>>
               /\ \A k \in 1..Len(Outcome(i).spans) :
                      Outcome(i).spans[k].start < Outcome(i).spans[k].end

\* lines:, on a content of two lines has returned the empty string
C12_SilentlyEmpty ==
    /\ Returned
    /\ SingleSelector("lines", <<",">>)
    /\ Len(source_lines) = 2
    /\ all_spans = <<>>
    /\ result.text = << <<>> >>

\* the call has the one selector lines:<value>
LinesCall ==
    /\ Len(selectors.items) = 1
    /\ Len(selectors.items[1]) > 2
    /\ SubSeq(selectors.items[1], 1, 2) = <<"lines", ":">>

LinesValue == SubSeq(selectors.items[1], 3, Len(selectors.items[1]))

\* 'Line out of range' has been raised naming N and the number of lines
LineOutOfRangeRaised(N) ==
    /\ RaisedError("LineOutOfRange")
    /\ result.err.n = N
    /\ result.err.total = Len(source_lines)

\* the part of C13 about the numbers written without a sign
C13_Unsigned ==
    (Done /\ LinesCall /\ AllDigits(LinesValue)) =>
        LET N == DigitsVal(LinesValue)
        IN  (N = 0 \/ N > Len(source_lines)) => LineOutOfRangeRaised(N)

\* C13 as stated: lines:N with N zero, negative or greater than the number of
\* lines raises 'Line out of range' naming N and the number of lines.
C13_Original ==
    /\ C13_Unsigned
    /\ (Done /\ LinesCall /\ Len(LinesValue) > 1 /\ LinesValue[1] = "-"
             /\ AllDigits(Tail(LinesValue)) /\ DigitsVal(Tail(LinesValue)) > 0) =>
           LineOutOfRangeRaised(0 - DigitsVal(Tail(LinesValue)))

\* C13 amended: lines:N with N zero or greater than the number of lines raises
\* 'Line out of range' naming N and the number of lines and returns no text; a
\* number written with a minus sign is the open-ended form -M, which selects
\* lines 1..min(M, total) of a non-empty content.
C13_LineOutOfRange ==
    /\ C13_Unsigned
    /\ (Done /\ LinesCall /\ Len(LinesValue) > 1 /\ LinesValue[1] = "-"
             /\ AllDigits(Tail(LinesValue)) /\ DigitsVal(Tail(LinesValue)) > 0
             /\ source_lines # <<>>) =>
           LET M == DigitsVal(Tail(LinesValue))
           IN  result = TextResult(TextOfLines(1..(IF M > Len(source_lines)
                                                    THEN Len(source_lines) ELSE M)))

\* lines:0 on three lines has raised 'Line 0 out of range (file has 3 lines)'
C13_Witness ==
    /\ LinesCall
    /\ LinesValue = <<"0">>
    /\ Len(source_lines) = 3
    /\ LineOutOfRangeRaised(0)

\* lines:-1 on three lines has returned line 1
C13_WitnessMinus ==
    /\ Returned
    /\ LinesCall
    /\ LinesValue = <<"-", "1">>
    /\ result.text = << <<"L", "1">> >>

\* the value is N-M with both sides written as digits
IsTwoSided(v) ==
    /\ IndexOf(v, "-") # 0
    /\ AllDigits(SubSeq(v, 1, IndexOf(v, "-") - 1))
    /\ AllDigits(SubSeq(v, IndexOf(v, "-") + 1, Len(v)))

LeftNumber(v) == DigitsVal(SubSeq(v, 1, IndexOf(v, "-") - 1))

RightNumber(v) == DigitsVal(SubSeq(v, IndexOf(v, "-") + 1, Len(v)))

\* C14: a two-sided range lines:N-M with N below 1 or M above the number of lines
\* raises an error instead of being clamped to the bounds of the file.
C14_TwoSidedNotClamped ==
    (Done /\ LinesCall /\ IsTwoSided(LinesValue)
          /\ (LeftNumber(LinesValue) < 1 \/ RightNumber(LinesValue) > Len(source_lines))) =>
        result.kind = "error"

\* lines:1-3 on a content of two lines has been clamped and has returned both lines
C14_Clamped ==
    /\ Returned
    /\ LinesCall
    /\ LinesValue = <<"1", "-", "3">>
    /\ Len(source_lines) = 2
    /\ all_spans = <<Span(0, 2)>>
    /\ result.text = << <<"L", "1">>, <<"L", "2">> >>

\* the call has the single selector lines:<value>: a list of one element, or a
\* string that holds no comma (a string is cut at its commas before it is parsed)
OneLinesSelector == LinesCall /\ (selectors.form = "list" \/ IndexOf(LinesValue, ",") = 0)

\* the parts of the lines: value of the call
PartsOfValue == Split(LinesValue, ",")

\* the part is a dash form whose sides are empty or integers, not both empty
IsDashForm(part) ==
    LET i == IndexOf(part, "-")
        left == Strip(SubSeq(part, 1, i - 1))
        right == Strip(SubSeq(part, i + 1, Len(part)))
    IN  /\ i # 0
        /\ left # <<>> \/ right # <<>>
        /\ left = <<>> \/ ParseInt(left).ok
        /\ right = <<>> \/ ParseInt(right).ok

\* the resolved 0-based start of a dash form: N - 1, not below 0
ResolvedStart(part) ==
    LET left == Strip(SubSeq(part, 1, IndexOf(part, "-") - 1))
    IN  IF left = <<>> THEN 0 ELSE Max(ParseInt(left).n - 1, 0)

\* the resolved exclusive end of a dash form: M, not above the number of lines
ResolvedEnd(part) ==
    LET right == Strip(SubSeq(part, IndexOf(part, "-") + 1, Len(part)))
    IN  IF right = <<>> THEN Len(source_lines) ELSE Min(ParseInt(right).n, Len(source_lines))

\* the positions of the dash-form parts whose resolved start is >= the resolved end
EmptyDashParts ==
    {i \in 1..Len(PartsOfValue) :
        /\ IsDashForm(Strip(PartsOfValue[i]))
        /\ ResolvedStart(Strip(PartsOfValue[i])) >= ResolvedEnd(Strip(PartsOfValue[i]))}

\* C15: a lines: value with a dash-form part whose resolved start is >= its resolved
\* end never returns text; when no earlier part fails, the error raised is 'Empty or
\* inverted line range' with the resolved bounds of that part.
C15_EmptyRangeRaises ==
    (Done /\ OneLinesSelector /\ EmptyDashParts # {}) =>
        LET first == CHOOSE i \in EmptyDashParts : \A j \in EmptyDashParts : i <= j
            part == Strip(PartsOfValue[first])
        IN  /\ result.kind = "error"
            /\ (\A j \in 1..(first - 1) :
                    ResolveLineParts(Len(source_lines), <<PartsOfValue[j]>>).status = "ok") =>
                   /\ RaisedError("EmptyOrInvertedRange")
                   /\ result.err.sel = part
                   /\ result.err.n = ResolvedStart(part) + 1
                   /\ result.err.total = ResolvedEnd(part)

\* lines:3-1 on three lines has raised 'Empty or inverted line range' (resolved 3-1)
C15_Witness ==
    /\ LinesCall
    /\ LinesValue = <<"3", "-", "1">>
    /\ Len(source_lines) = 3
    /\ RaisedError("EmptyOrInvertedRange")
    /\ result.err.n = 3
    /\ result.err.total = 1

\* lines:3- on two lines has raised 'Empty or inverted line range' (resolved 3-2)
C15_WitnessOpenEnded ==
    /\ LinesCall
    /\ LinesValue = <<"3", "-">>
    /\ Len(source_lines) = 2
    /\ RaisedError("EmptyOrInvertedRange")
    /\ result.err.n = 3
    /\ result.err.total = 2

\* lines:-0 has raised 'Empty or inverted line range' (resolved 1-0)
C15_WitnessMinusZero ==
    /\ LinesCall
    /\ LinesValue = <<"-", "0">>
    /\ Len(source_lines) = 3
    /\ RaisedError("EmptyOrInvertedRange")
    /\ result.err.n = 1
    /\ result.err.total = 0

\* C16: with an empty selector list or an empty selector string and mode 'full',
\* select returns the content as it was given, trailing newline included, whatever
\* the content and the file path, and nothing has been parsed.
C16_NoSelectorsReturnsContent ==
    (Done /\ selectors \in EmptyInputs /\ mode = "full") =>
        /\ result.kind = "text"
        /\ result.text = content
        /\ parsed = <<>>
        /\ ~tree.present
        /\ ran = <<>>

\* select("L1\nL2\nL3\n", [], "d.json") has returned the content with its trailing
\* newline, although the content is not a JSON document
C16_Witness ==
    /\ Returned
    /\ selectors = AsList(<<>>)
    /\ mode = "full"
    /\ file_path = FilePath(<<"d", ".json">>)
    /\ content = << <<"L", "1">>, <<"L", "2">>, <<"L", "3">>, <<>> >>
    /\ result.text = content

\* select("def f():", "", "m.py") has returned the source, which does not parse
C16_WitnessString ==
    /\ Returned
    /\ selectors = AsString(<<>>)
    /\ mode = "full"
    /\ file_path = FilePath(<<"m", ".py">>)
    /\ content = << <<"def", "f", "(", ")", ":">> >>
    /\ result.text = content

\* what select returns for the empty selector list on the content and mode of the call
EmptyListResult ==
    IF mode = "interface" THEN FullInterface(SplitLines(content)) ELSE ReturnContent(content)

\* C17: a selector input whose pieces are all blank, list or string, gives the result
\* of the empty selector list, for every content, file path and mode.
C17_BlankIsNoSelectors ==
    (Done /\ selectors \in BlankLists \cup BlankStrings) => result = EmptyListResult

\* select("import os\nx=1\ndef f():pass", [""], mode="interface") has returned the
\* content, where the empty list gives the interface of the whole file
C17_BlankListInterface ==
    /\ Returned
    /\ selectors = AsList(<< <<>> >>)
    /\ mode = "interface"
    /\ content = << <<"import", "os">>, <<"x", "=", "1">>, <<"def", "f", "(", ")", ":", "pass">> >>
    /\ result.text = content
    /\ EmptyListResult.kind = "text"
    /\ EmptyListResult.text # content

\* the part of C17 that holds: in mode 'full', and for the string form in both modes
C17_HoldsFullAndString ==
    (Done /\ selectors \in BlankLists \cup BlankStrings
          /\ (mode = "full" \/ selectors.form = "str")) => result = EmptyListResult

\* the loop of select over ps from position k, as a function: the spans and the path
\* fragments collected, or the error of the first failing resolver
RECURSIVE LoopFrom(_, _, _, _, _, _, _)
LoopFrom(c, ps, nodes, fp, k, spans, frags) ==
    IF k > Len(ps) THEN [ok |-> TRUE, spans |-> spans, frags |-> frags, res |-> NoResult]
    ELSE LET r == RunResolver(ps[k], c, SplitLines(c), nodes, fp)
         IN  IF r.status = "ok"
             THEN LoopFrom(c, ps, nodes, fp, k + 1, spans \o r.spans,
                           IF ps[k].kind = "path" THEN Append(frags, r.text) ELSE frags)
             ELSE [ok |-> FALSE, spans |-> <<>>, frags |-> <<>>,
                   res |-> ErrorResult(IF r.status = "SelectorError" THEN r.err
                                       ELSE Err2("SelectorProcessingError",
                                                 SelectorText(ps[k]), <<r.err.type>>))]

\* select(c, list, fp, m) for a list of selectors, as a function of its arguments
SelectList(c, list, fp, m) ==
    LET lines == SplitLines(c)
        p == ParseSelectors(list)
        ps == p.parsed
        needs_ast == NeedsAst(ps)
        t == IF needs_ast THEN PyParse(lines) ELSE NoTree
        loop == LoopFrom(c, ps, t.nodes, fp, 1, <<>>, <<>>)
    IN  IF list = <<>> /\ m = "interface" THEN FullInterface(lines)
        ELSE IF list = <<>> THEN TextResult(c)
        ELSE IF ~p.ok THEN ErrorResult(p.err)
        ELSE IF ps = <<>> THEN TextResult(c)
        ELSE IF needs_ast /\ ~IsPython(fp) /\ ~fp.none
             THEN ErrorResult(Err("AstRequiresPyFile", PathOf(fp)))
        ELSE IF needs_ast /\ ParseRaises(lines) = "SyntaxError"
             THEN ErrorResult(Err("PythonParseError", <<>>))
        ELSE IF needs_ast /\ ParseRaises(lines) # "none" THEN EscapedResult(ParseRaises(lines))
        ELSE IF HasKind(ps, {"section"}) /\ ~IsMarkdown(fp) /\ ~fp.none
             THEN ErrorResult(Err("SectionRequiresMdFile", PathOf(fp)))
        ELSE IF HasKind(ps, {"path"}) /\ ~(IsJson(fp) \/ IsYaml(fp))
             THEN ErrorResult(Err("PathRequiresJsonYamlFile", PathOf(fp)))
        ELSE IF ~loop.ok THEN loop.res
        ELSE TextResult(JoinTexts(
                 (IF loop.spans # <<>>
                  THEN IF m = "interface" /\ IsPython(fp) /\ t.present
                       THEN <<InterfaceFromSpans(lines, t.nodes, loop.spans)>>
                       ELSE <<ExtractSpans(lines, loop.spans)>>
                  ELSE <<>>)
                 \o loop.frags))

\* the pieces of a selector string, trimmed, without the blank ones
RECURSIVE Trimmed(_)
Trimmed(ps) ==
    IF ps = <<>> THEN <<>>
    ELSE (IF Strip(ps[1]) = <<>> THEN <<>> ELSE <<Strip(ps[1])>>) \o Trimmed(Tail(ps))

\* C18: a selector string gives the result of the list of its comma-separated pieces,
\* trimmed and without the blank ones, and of the list of the pieces as written when
\* none is blank; a list is taken element by element, commas included, so that
\* ["lines:1,3"] selects lines 1 and 3.
C18_StringIsCommaSeparatedList ==
    /\ (Done /\ selectors.form = "list") =>
           result = SelectList(content, selectors.items, file_path, mode)
    /\ (Done /\ selectors.form = "str") =>
           /\ sel_list = Trimmed(Pieces)
           /\ result = SelectList(content, Trimmed(Pieces), file_path, mode)
           /\ NonBlankPieces = 1..Len(Pieces) =>
                  result = SelectList(content, Pieces, file_path, mode)
    /\ (Done /\ selectors = AsList(<< <<"lines", ":", "1", ",", "3">> >>)
             /\ Len(source_lines) >= 3) =>
           /\ sel_list = selectors.items
           /\ result = TextResult(TextOfLines({1, 3}))

\* select(content, " lines:1 , ,lines:2-3") has returned lines 1 to 3, as the list
\* ["lines:1", "lines:2-3"] does
C18_Witness ==
    /\ Returned
    /\ selectors = AsString(<<" ", "lines", ":", "1", " ", ",", " ", ",",
                              "lines", ":", "2", "-", "3">>)
    /\ sel_list = << <<"lines", ":", "1">>, <<"lines", ":", "2", "-", "3">> >>
    /\ result.text = TextOfLines({1, 2, 3})

\* select(content, ["lines:1,3"]) has returned lines 1 and 3
C18_WitnessList ==
    /\ Returned
    /\ selectors = AsList(<< <<"lines", ":", "1", ",", "3">> >>)
    /\ mode = "full"
    /\ result.text = << <<"def", "f", "(", ")", ":", "pass">>, <<"#", " ", "A">> >>

LineBasedKinds == {"lines", "def", "class", "section", "pattern"}

\* the positions of the line-based selectors of the call
LineBased == {i \in 1..Len(parsed) : parsed[i].kind \in LineBasedKinds}

\* the 1-based numbers of the lines selected by the line-based selectors of the call
SelectedLines ==
    {n \in 1..Len(source_lines) :
        \E i \in LineBased : \E k \in 1..Len(Outcome(i).spans) :
            Outcome(i).spans[k].start < n /\ n <= Outcome(i).spans[k].end}

\* the fragments of the path selectors of the call from position i on, in list order
RECURSIVE FragmentsFrom(_)
FragmentsFrom(i) ==
    IF i > Len(parsed) THEN <<>>
    ELSE (IF parsed[i].kind = "path" THEN <<Outcome(i).text>> ELSE <<>>) \o FragmentsFrom(i + 1)

\* C19: the result is the text of the selected lines, present iff a line-based selector
\* was given, followed by the fragments of the path selectors in list order, joined
\* by line breaks.
C19_SpanTextThenFragments ==
    (Returned /\ parsed # <<>>) =>
        result.text = JoinTexts((IF LineBased # {} THEN <<TextOfLines(SelectedLines)>> ELSE <<>>)
                                \o FragmentsFrom(1))

\* the same with the text of the selected lines present iff some line was selected
C19_WhenLinesSelected ==
    (Returned /\ parsed # <<>>) =>
        result.text = JoinTexts((IF SelectedLines # {} THEN <<TextOfLines(SelectedLines)>> ELSE <<>>)
                                \o FragmentsFrom(1))

\* select(document, ["lines:,", "path:b"], "d.json") has returned "null": a line-based
\* selector was given and the result holds the fragment alone
C19_FragmentAlone ==
    /\ Returned
    /\ selectors = AsList(<< <<"lines", ":", ",">>, <<"path", ":", "b">> >>)
    /\ LineBased = {1}
    /\ result.text = << <<"null">> >>

\* select(document, ["path:t", "lines:3", "path:b"], "d.json") has returned line 3,
\* then the fragment of path:t, then the one of path:b
C19_LinesBeforeFragments ==
    /\ Returned
    /\ selectors = AsList(<< <<"path", ":", "t">>, <<"lines", ":", "3">>, <<"path", ":", "b">> >>)
    /\ result.text = << <<QUOTE, "t", QUOTE, ":", " ", "1", "}">>, <<"1">>, <<"null">> >>

\* the lines of the result that are an elision marker
EllipsisLines == {k \in 1..Len(result.text) : LStrip(result.text[k]) = <<"...">>}

\* the def and async def lines of the source
FunctionLines ==
    {i \in NonBlank(source_lines) :
        IsDefStmt(PyStmt(source_lines[i])) \/ IsAsyncDefStmt(PyStmt(source_lines[i]))}

\* C20: the projection of a function with a non-empty body holds exactly one '...'
\* line and no text of a body statement, whatever the layout of the function. Checked
\* on the sources whose only function is f, selected by def:f in interface mode; the
\* body statements of these sources are all "pass".
C20_BodyElided ==
    (Returned /\ mode = "interface" /\ SingleSelector("def", <<"f">>)
              /\ Cardinality(FunctionLines) = 1) =>
        /\ Cardinality(EllipsisLines) = 1
        /\ \A k \in 1..Len(result.text) : ~Contains(result.text[k], "pass")

\* the same for the functions whose body starts on the line after the signature
C20_BlockBodyElided ==
    (Returned /\ mode = "interface" /\ SingleSelector("def", <<"f">>)
              /\ Cardinality(FunctionLines) = 1
              /\ \A i \in FunctionLines : OpensBlock(PyStmt(source_lines[i]))) =>
        /\ Cardinality(EllipsisLines) = 1
        /\ \A k \in 1..Len(result.text) : ~Contains(result.text[k], "pass")

\* select("def f(): pass", ["def:f"], "m.py", "interface") has returned the def line
\* with its body, followed by "..."
C20_BodyOnDefLine ==
    /\ Returned
    /\ mode = "interface"
    /\ SingleSelector("def", <<"f">>)
    /\ content = << <<"def", "f", "(", ")", ":", "pass">> >>
    /\ result.text = << <<"def", "f", "(", ")", ":", "pass">>, <<"...">> >>

\* select("@d\ndef f():\n    pass", ["def:f"], "m.py", "interface") has returned the
\* decorator, the signature and one "..." line
C20_BlockBody ==
    /\ Returned
    /\ mode = "interface"
    /\ SingleSelector("def", <<"f">>)
    /\ content = << <<"@", "d">>, <<"def", "f", "(", ")", ":">>, <<IND, "pass">> >>
    /\ result.text = << <<"@", "d">>, <<"def", "f", "(", ")", ":">>, <<IND, "...">> >>

\* the line is the header of a function or class whose name starts with "_", other
\* than __init__
IsPrivateHeader(line) ==
    IsHeaderStmt(PyStmt(line)) /\ IsPrivateName(NodeName(PyStmt(line)))

\* the header lines of the classes projected by the call: the top-level public ones
\* for the whole file, the ones named A for class:A
ProjectedClasses ==
    {c \in HeaderLines(source_lines) :
        /\ IsClassStmt(PyStmt(source_lines[c]))
        /\ IF sel_list = <<>>
           THEN ParentLine(source_lines, c) = 0 /\ ~IsPrivateHeader(source_lines[c])
           ELSE NodeName(PyStmt(source_lines[c])) = <<"A">>}

\* the header lines of __init__ and of the public methods of the class at line c
PublicMethods(c) ==
    {h \in HeaderLines(source_lines) :
        /\ ParentLine(source_lines, h) = c
        /\ ~IsClassStmt(PyStmt(source_lines[h]))
        /\ ~IsPrivateHeader(source_lines[h])}

ResultLines == {result.text[k] : k \in 1..Len(result.text)}

\* the projection of the call holds the signature of __init__ and of every public
\* method of the projected classes and no signature of a private function or class
PrivateExcluded ==
    /\ \A c \in ProjectedClasses : \A h \in PublicMethods(c) : source_lines[h] \in ResultLines
    /\ \A line \in ResultLines : ~IsPrivateHeader(line)

\* C21: a class projected in interface mode, for the whole file and for class:Name
\* alike, shows __init__ and its public methods and none of its other underscore
\* methods; for the whole file the top-level private functions and classes are absent.
C21_PrivateExcluded ==
    (Returned /\ mode = "interface" /\ ~file_path.none
              /\ (sel_list = <<>> \/ SingleSelector("class", <<"A">>))) => PrivateExcluded

\* the same for the whole file only
C21_WholeFile ==
    (Returned /\ mode = "interface" /\ sel_list = <<>>) => PrivateExcluded

\* select(source, ["class:A"], "m.py", "interface") on the class with __init__, f and
\* _q has returned a text that holds the signature of _q
C21_PrivateShown ==
    /\ Returned
    /\ mode = "interface"
    /\ content = ClassSource
    /\ SingleSelector("class", <<"A">>)
    /\ <<IND, "def", "__init__", "(", ")", ":">> \in ResultLines
    /\ <<IND, "def", "_q", "(", ")", ":">> \in ResultLines

\* select(source, [], "m.py", "interface") on the module with f, _p, A and _C has
\* returned the assignment and the projections of f and A
C21_WholeFileWitness ==
    /\ Returned
    /\ mode = "interface"
    /\ content = ModuleSource
    /\ sel_list = <<>>
    /\ result.text = << <<"x", "=", "1">>, <<>>, <<"def", "f", "(", ")", ":">>, <<IND, "...">>,
                        <<>>, <<"class", "A", ":">>,
                        <<IND, "def", "g", "(", ")", ":", "pass">>, <<IND, "...">> >>

\* the 1-based numbers of the lines of a node, decorators included
NodeLines(node) == (NodeStartLine(node) + 1)..NodeEndLine(node)

\* the projections of the nodes of the tree that share a line with the selected
\* lines, in the order of the walk from node k on, with a blank line between them
RECURSIVE ProjectionsFrom(_, _)
ProjectionsFrom(k, acc) ==
    IF k > Len(tree.nodes) THEN acc
    ELSE ProjectionsFrom(k + 1,
             IF NodeLines(tree.nodes[k]) \cap SelectedLines # {}
             THEN AppendIface(acc, InterfaceForNode(source_lines, tree.nodes[k]))
             ELSE acc)

\* the call is a selector-scoped projection: interface mode, a def or class selector,
\* a Python file type
ScopedInterface ==
    mode = "interface" /\ HasKind(parsed, {"def", "class"}) /\ IsPython(file_path)

\* C22: in selector-scoped interface mode the output is made of the projections of
\* the function and class nodes that share a line with the selected lines, and of
\* nothing else; a node that is apart from the selected spans, or only touches
\* them, is not projected: its signature, when no other line of the source reads the
\* same, is not in the output unless a node that is projected encloses it.
C22_OnlyOverlappingNodes ==
    (Returned /\ ScopedInterface) =>
        /\ result.text = JoinLines(ProjectionsFrom(1, <<>>))
        /\ \A k \in 1..Len(tree.nodes) :
               (/\ NodeLines(tree.nodes[k]) \cap SelectedLines = {}
                /\ \A j \in 1..Len(tree.nodes) :
                       tree.nodes[j].lineno \in Enclosing(source_lines, tree.nodes[k].lineno)
                           => NodeLines(tree.nodes[j]) \cap SelectedLines = {}
                /\ \A i \in 1..Len(source_lines) :
                       source_lines[i] = source_lines[tree.nodes[k].lineno]
                           => i = tree.nodes[k].lineno) =>
                   source_lines[tree.nodes[k].lineno] \notin ResultLines

\* select(source, ["def:f"], "m.py", "interface") on the module has returned the
\* projection of f alone: nothing of _p, which starts where f ends, nor of class A
C22_Witness ==
    /\ Returned
    /\ mode = "interface"
    /\ content = ModuleSource
    /\ selectors = AsList(<< <<"def", ":", "f">> >>)
    /\ all_spans = <<Span(1, 3)>>
    /\ result.text = << <<"def", "f", "(", ")", ":">>, <<IND, "...">> >>

\* the arguments of the call in progress
Arguments == <<content, selectors, file_path, mode>>

\* the locals of select are the ones of a call that has not started
NoLocals ==
    /\ sel_list = <<>>
    /\ parsed = <<>>
    /\ tree = NoTree
    /\ idx = 0
    /\ all_spans = <<>>
    /\ path_results = <<>>
    /\ ran = <<>>
    /\ result = NoResult

Reorderings(l) ==
    {[i \in 1..Len(l) |-> l[f[i]]] :
        f \in {g \in [1..Len(l) -> 1..Len(l)] : \A i, j \in 1..Len(l) : g[i] = g[j] => i = j}}

\* the lists made of l and one of its elements once more, at either end
Repetitions(l) == {l \o <<l[i]>> : i \in 1..Len(l)} \cup {<<l[i]>> \o l : i \in 1..Len(l)}

\* C24: when every selector of a list is line-based and the call returns, select
\* returns the same text for every permutation of the list and for the list with one
\* of its selectors repeated, in full and in interface mode.
C24_OrderIrrelevant ==
    (Returned /\ selectors.form = "list" /\ parsed # <<>> /\ LineBased = 1..Len(parsed)) =>
        \A l \in Reorderings(selectors.items) \cup Repetitions(selectors.items) :
            SelectList(content, l, file_path, mode) = result

\* select(source, ["lines:4-5", "lines:1"], "m.py") has returned lines 1, 4 and 5 of
\* the module, in the order of the file
C24_Witness ==
    /\ Returned
    /\ content = ModuleSource
    /\ mode = "full"
    /\ selectors = AsList(<< <<"lines", ":", "4", "-", "5">>, <<"lines", ":", "1">> >>)
    /\ all_spans = <<Span(3, 5), Span(0, 1)>>
    /\ result.text = TextOfLines({1, 4, 5})

\* select(source, ["def:g", "class:A"], "m.py", "interface") on the class defined
\* twice has returned the projections of both classes and of their methods
C24_WitnessInterface ==
    /\ Returned
    /\ content = RedefinedSource
    /\ mode = "interface"
    /\ selectors = AsList(<< <<"def", ":", "g">>, <<"class", ":", "A">> >>)
    /\ Len(result.text) > 3

FileTypeErrors == {"AstRequiresPyFile", "SectionRequiresMdFile", "PathRequiresJsonYamlFile"}

\* the call combines a def or class selector with a section selector on a file that
\* is not Markdown or with a path selector on a file that is not JSON or YAML
StructuralWithIncompatible ==
    /\ HasKind(parsed, {"def", "class"})
    /\ \/ HasKind(parsed, {"section"}) /\ ~IsMarkdown(file_path) /\ ~file_path.none
       \/ HasKind(parsed, {"path"}) /\ ~IsJson(file_path) /\ ~IsYaml(file_path)

\* C25: a call that combines a def or class selector with a section or path selector
\* incompatible with the file type raises a file-type compatibility error, whether or
\* not the content parses as Python.
C25_FileTypeBeforeParse ==
    (Done /\ StructuralWithIncompatible) =>
        result.kind = "error" /\ result.err.type \in FileTypeErrors

\* the same for the contents that parse as Python
C25_WhenSourceParses ==
    (Done /\ StructuralWithIncompatible /\ ParseRaises(source_lines) = "none") =>
        result.kind = "error" /\ result.err.type \in FileTypeErrors

\* select("def f():", ["def:f", "section:A"], "m.py") has raised 'Python parse error'
\* and not 'Section selector requires a .md file'
C25_ParseErrorFirst ==
    /\ RaisedError("PythonParseError")
    /\ content = MixedBroken
    /\ file_path = FilePath(<<"m", ".py">>)
    /\ selectors = AsList(<< <<"def", ":", "f">>, <<"section", ":", "A">> >>)
    /\ ran = <<>>

\* select(source, ["def:f", "section:A"], "m.py") on a source that parses has raised
\* 'Section selector requires a .md file'
C25_SectionRejected ==
    /\ RaisedError("SectionRequiresMdFile")
    /\ content = MixedPython
    /\ selectors = AsList(<< <<"def", ":", "f">>, <<"section", ":", "A">> >>)
    /\ tree.present
    /\ ran = <<>>

\* C26: called with no file_path, a section: selector is rejected with 'Section
\* selector requires a .md file' and a path: selector with 'Path selector requires a
\* .json/.yaml/.yml file'; neither is resolved against the content.
C26_NothingButPythonAssumed ==
    (Done /\ file_path.none /\ ~HasKind(parsed, {"def", "class"})) =>
        /\ HasKind(parsed, {"section"}) => RaisedError("SectionRequiresMdFile")
        /\ (HasKind(parsed, {"path"}) /\ ~HasKind(parsed, {"section"})) =>
               RaisedError("PathRequiresJsonYamlFile")

\* the same for the path: selector alone
C26_PathRejected ==
    (Done /\ file_path.none /\ HasKind(parsed, {"path"})
          /\ ~HasKind(parsed, {"def", "class"})) =>
        RaisedError("PathRequiresJsonYamlFile") /\ ran = <<>>

\* select(source, ["section:A"]) with no file_path has run the section resolver and
\* returned the section of the heading found in the source
C26_SectionResolved ==
    /\ Returned
    /\ file_path.none
    /\ content = MixedPython
    /\ selectors = AsList(<< <<"section", ":", "A">> >>)
    /\ ran = <<1>>
    /\ result.text = << <<"#", " ", "A">>, <<"t">> >>

\* select(source, ["path:a"]) with no file_path has raised 'Path selector requires a
\* .json/.yaml/.yml file'
C26_PathRejectedWitness ==
    /\ RaisedError("PathRequiresJsonYamlFile")
    /\ file_path.none
    /\ selectors = AsList(<< <<"path", ":", "a">> >>)
    /\ ran = <<>>

\* the 0-based line indices covered by a sequence of spans
Covered(spans) ==
    UNION {spans[k].start..(spans[k].end - 1) : k \in 1..Len(spans)}

\* C27: the merge of any collection of spans with start < end gives spans with
\* start < end, in ascending order, each ending before the next one starts, that
\* cover the line indices of the collection and no other; the text returned is made
\* of the lines at these indices.
C27_MergeIsMaximal ==
    (all_spans # <<>> /\ \A k \in 1..Len(all_spans) : all_spans[k].start < all_spans[k].end) =>
        LET merged == MergeSpans(all_spans)
        IN  /\ \A k \in 1..Len(merged) : merged[k].start < merged[k].end
            /\ \A k \in 1..(Len(merged) - 1) : merged[k].end < merged[k + 1].start
            /\ Covered(merged) = Covered(all_spans)
            /\ (Returned /\ mode = "full" /\ path_results = <<>>) =>
                   result.text = TextOfLines({i + 1 : i \in Covered(all_spans)})

\* the spans (2,3), (0,3), (1,2), given in this order, have been merged into (0,3):
\* a span inside an earlier, longer one does not shorten it
C27_Witness ==
    /\ Returned
    /\ all_spans = <<Span(2, 3), Span(0, 3), Span(1, 2)>>
    /\ MergeSpans(all_spans) = <<Span(0, 3)>>
    /\ result.text = TextOfLines({1, 2, 3})

\* the spans (2,3), (0,1), (1,2) touch and have been merged into (0,3)
C27_WitnessTouching ==
    /\ Returned
    /\ all_spans = <<Span(2, 3), Span(0, 1), Span(1, 2)>>
    /\ MergeSpans(all_spans) = <<Span(0, 3)>>

\* the spans (2,3) and (0,1) stay apart
C27_WitnessApart ==
    /\ Returned
    /\ all_spans = <<Span(2, 3), Span(0, 1)>>
    /\ MergeSpans(all_spans) = <<Span(0, 1), Span(2, 3)>>

\* the 1-based numbers of the lines selected by the lines: and pattern: selectors
LinesAskedFor ==
    {n \in 1..Len(source_lines) :
        \E i \in 1..Len(parsed) :
            /\ parsed[i].kind \in {"lines", "pattern"}
            /\ \E k \in 1..Len(Outcome(i).spans) :
                   Outcome(i).spans[k].start < n /\ n <= Outcome(i).spans[k].end}

\* the line lies inside a function or class of the source
InsideNode(n) == \E k \in 1..Len(tree.nodes) : n \in NodeLines(tree.nodes[k])

\* C28: in interface mode with a def or class selector next to a lines: or pattern:
\* selector, every line selected by the latter is in the output: as it is written
\* when it lies outside every function and class, through a projection otherwise.
C28_NothingDropped ==
    (Returned /\ ScopedInterface) =>
        \A n \in LinesAskedFor : InsideNode(n) \/ source_lines[n] \in ResultLines

\* the part of C28 about the lines inside a function or class: the output holds the
\* projection of a node that holds the line
C28_InsideProjected ==
    (Returned /\ ScopedInterface) =>
        \A n \in LinesAskedFor :
            InsideNode(n) =>
                \E k \in 1..Len(tree.nodes) :
                    /\ n \in NodeLines(tree.nodes[k])
                    /\ source_lines[tree.nodes[k].lineno] \in ResultLines

\* select(source, ["def:f", "lines:1"], "m.py", "interface") on the module has
\* returned the projection of f alone: line 1, "x=1", is not in the output
C28_LineDropped ==
    /\ Returned
    /\ mode = "interface"
    /\ content = ModuleSource
    /\ selectors = AsList(<< <<"def", ":", "f">>, <<"lines", ":", "1">> >>)
    /\ all_spans = <<Span(1, 3), Span(0, 1)>>
    /\ result.text = << <<"def", "f", "(", ")", ":">>, <<IND, "...">> >>

\* the classes named cls that define method among their direct body statements
DefiningClasses(cls, meth) == {c \in ClassesNamed(cls) : DirectMethods(c, meth) # {}}

\* C29: with several classes named Name of which at least one defines m,
\* class:Name.m returns the lines of m in every class that defines it; 'Method not
\* found' is raised only when no class named Name defines m.
C29_AnyDefiningClass ==
    \A cls \in Identifiers, meth \in Identifiers :
        (Done /\ SingleSelector("class", <<cls, ".", meth>>) /\ tree.present /\ mode = "full") =>
            LET defining == DefiningClasses(<<cls>>, <<meth>>)
                ms == UNION {DirectMethods(c, <<meth>>) : c \in defining}
            IN  /\ defining # {} =>
                       result = TextResult(TextOfLines(UNION {DefinitionLines(i) : i \in ms}))
                /\ RaisedError("MethodNotFound") => defining = {}

\* the part of C29 that holds: when every class named Name defines m, the lines of
\* m in all of them are returned, in the order of the source
C29_WhenAllDefine ==
    \A cls \in Identifiers, meth \in Identifiers :
        (Done /\ SingleSelector("class", <<cls, ".", meth>>) /\ tree.present /\ mode = "full"
              /\ ClassesNamed(<<cls>>) # {}
              /\ DefiningClasses(<<cls>>, <<meth>>) = ClassesNamed(<<cls>>)) =>
            LET ms == UNION {DirectMethods(c, <<meth>>) : c \in ClassesNamed(<<cls>>)}
            IN  result = TextResult(TextOfLines(UNION {DefinitionLines(i) : i \in ms}))

\* class:A.g on the source where the first class A defines g and the second does
\* not has raised 'Method not found'
C29_MethodNotFoundAlthoughDefined ==
    /\ RaisedError("MethodNotFound")
    /\ SingleSelector("class", <<"A", ".", "g">>)
    /\ content = RedefinedSource
    /\ DirectMethods(1, <<"g">>) = {2}
    /\ result.err.sel = <<"g">>
    /\ result.err.aux = <<"A">>

\* class:A.f on the same source, where both classes A define f, has returned both
C29_BothReturned ==
    /\ Returned
    /\ mode = "full"
    /\ SingleSelector("class", <<"A", ".", "f">>)
    /\ content = RedefinedSource
    /\ result.text = << <<IND, "def", "f", "(", ")", ":", "pass">>,
                        <<IND, "def", "f", "(", ")", ":", "pass">> >>

\* select is about to run, or has run, the selector-scoped interface projection
ReachesProjection ==
    /\ \/ pc = "resolve" /\ idx > Len(parsed)
       \/ Returned
    /\ mode = "interface"
    /\ IsPython(file_path)
    /\ tree.present
    /\ all_spans # <<>>

\* C30: whenever select reaches the selector-scoped interface projection (interface
\* mode, Python file type, a tree, at least one span), a function or class of the
\* tree shares a line with the collected spans: the projection is never empty and
\* the merged text is never returned in its place.
C30_FallbackNeverTaken ==
    ReachesProjection =>
        /\ \E k \in 1..Len(tree.nodes) :
               \E n \in NodeLines(tree.nodes[k]) : (n - 1) \in Covered(all_spans)
        /\ ProjectionsFrom(1, <<>>) # <<>>
        /\ Returned => result.text = JoinLines(ProjectionsFrom(1, <<>>))

\* def:f next to lines:1 on the module has reached the projection: line 1 lies in no
\* function or class, f overlaps, and the projection of f is returned
C30_Witness ==
    /\ Returned
    /\ ReachesProjection
    /\ content = ModuleSource
    /\ selectors = AsList(<< <<"def", ":", "f">>, <<"lines", ":", "1">> >>)
    /\ ~InsideNode(1)
    /\ result.text = << <<"def", "f", "(", ")", ":">>, <<IND, "...">> >>

\* the projection is about to run, the last selector resolved and nothing returned yet
C30_WitnessBeforeBuild ==
    /\ pc = "resolve"
    /\ ReachesProjection
    /\ Len(all_spans) = 2
    /\ HasKind(parsed, {"pattern"})

====
